---- MODULE Spec2Model ----
(***************************************************************************)
(* A model of the MiWay telemetry engine of lib/miwayService.ts: the       *)
(* per-vehicle history store (vehicleCache), the speed resolver            *)
(* (computeSpeedFromCache, pickSpeedMps), the route variant classifier     *)
(* (formatRouteVariant), the leaderboard aggregation (getMiwayLeaderboard) *)
(* and the live snapshot (getVehiclePositions).                            *)
(*                                                                         *)
(* Numbers.  Speeds are exact rationals <<n, d>> (n/d, d > 0, lowest       *)
(* terms) where the code uses doubles; toFixed(1) is round-half-up to      *)
(* tenths of the exact value.  Positions are whole metres north (lat) and  *)
(* east (lon) of a reference point, so that the great-circle distance of   *)
(* two points is the planar distance in whole metres.  Timestamps and the  *)
(* wall clock are whole seconds.  An optional value is <<>> (absent) or    *)
(* <<v>> (present).                                                        *)
(***************************************************************************)
EXTENDS Integers, Sequences, FiniteSets, TLC

VARIABLES
    vehicleCache,      \* Map<string, VehicleSnapshot[]>: key -> history
    routeMapCache,     \* Record<routeId, {shortName, longName}>
    routeMapFetchedAt, \* seconds; 0 before the first successful load
    now,               \* the wall clock (Date.now()), in seconds
    feed,              \* the entities of the feed the last cycle decoded
    trace,             \* per entity of that feed: what the loop did with it
    swept,             \* the keys the last cycle's sweep deleted
    routeSpeeds,       \* the last leaderboard cycle's buckets, insertion order
    response,          \* what the last request answered
    appended,          \* key -> every snapshot pushed since its last eviction
    cycles,            \* number of requests served
    fetched,           \* how the upstream fetch of the last request ended
    lastRows,          \* the rows of the response before the last one
    refresh,           \* how getRouteMap ended in the last request
    shapeCache,        \* Record<shapeId, [lon, lat][]>
    routeToShapeCache, \* Record<routeId, shapeId>
    shapeCacheFetchedAt,      \* seconds; 0 before the first successful load
    routeShortNameToRouteIds, \* Record<upper-cased short name, routeId[]>
    shapeReply,        \* what the last route-shape request answered
    shapeLoad,         \* how loadShapeData ended last, and the last zip loaded
    queries,           \* number of route-shape requests served
    inflight,          \* per request slot: where its async function stands
    storeLog,          \* the accesses to vehicleCache, in order, by request
    begun,             \* number of requests begun in the slots
    pageData,          \* leaderboardDataRef.current, the list the page shows
    pageQueue,         \* the updates queued in the page's LeaderboardQueue
    pageTimer,         \* ms until the timeout of processNextItem is due
    pageSince,         \* ms since processNextItem last applied an update
    pageLast,          \* the last run of processNextItem, its last update and
                       \* the routes of the last reply the page got
    call               \* a call of a pure function: its arguments and result

shapeVars == <<shapeCache, routeToShapeCache, shapeCacheFetchedAt,
               routeShortNameToRouteIds, shapeReply, shapeLoad, queries>>

asyncVars == <<inflight, storeLog, begun>>

pageVars == <<pageData, pageQueue, pageTimer, pageSince, pageLast>>

vars == <<vehicleCache, routeMapCache, routeMapFetchedAt, now, feed, trace,
          swept, routeSpeeds, response, appended, cycles, fetched, lastRows,
          refresh, shapeVars, pageVars, asyncVars, call>>

engineVars == <<vehicleCache, routeMapCache, routeMapFetchedAt, now, feed,
                trace, swept, routeSpeeds, response, appended, cycles, fetched,
                lastRows, refresh, shapeVars, pageVars, asyncVars>>

-----------------------------------------------------------------------------
(* Optional values and small helpers *)

None == <<>>

Some(v) == <<v>>

Val(o) == o[1]

Truthy(o) == o # None /\ Val(o) # 0

Abs(x) == IF x < 0 THEN -x ELSE x

Max(a, b) == IF a >= b THEN a ELSE b

RECURSIVE GCD(_, _)
GCD(a, b) == IF b = 0 THEN a ELSE GCD(b, a % b)

Rat(n, d) == LET g == GCD(n, d) IN <<n \div g, d \div g>>

RatAdd(a, b) == Rat(a[1] * b[2] + b[1] * a[2], a[2] * b[2])

RatLeq(a, b) == a[1] * b[2] <= b[1] * a[2]

RatLt(a, b) == a[1] * b[2] < b[1] * a[2]

\* a rounding that cuts the decimals after the first
ToFixed1_Truncated(q) == (10 * q[1]) \div q[2]

\* parseFloat(x.toFixed(1)) in tenths: the nearest tenth, halves upwards
ToFixed1(q) == (20 * q[1] + q[2]) \div (2 * q[2])

-----------------------------------------------------------------------------
(* Configuration constants *)

MAX_HISTORY == 6

VEHICLE_CACHE_TTL_SEC == 300

MIN_SPEED_KMH == 1

MAX_SPEED_KMH == 75

MIN_TIME_DELTA_SECONDS == 8

MAX_TIME_DELTA_SECONDS == 120

MAX_JUMP_METERS == 600

MAX_TOTAL_TIME_SECONDS == 120

ROUTE_MAP_TTL_SEC == 43200

SHAPE_CACHE_TTL_SEC == 43200

ANIMATION_MS == 1000

EMPTY_POLL_MS == 200

TRIM_MIN_SAMPLES == 6

TRIM_PERCENT == 15

MOVING_KMH == 2

-----------------------------------------------------------------------------
(* Geo-kinematics *)

Isqrt(s) == CHOOSE r \in 0..s : r * r <= s /\ (r + 1) * (r + 1) > s

haversineMeters(lat1, lon1, lat2, lon2) ==
    IF lon1 = lon2 THEN Abs(lat2 - lat1)
    ELSE IF lat1 = lat2 THEN Abs(lon2 - lon1)
    ELSE Isqrt((lat2 - lat1) * (lat2 - lat1) + (lon2 - lon1) * (lon2 - lon1))

\* atan2(y, x) in whole degrees within [0, 360), for the compass axes and
\* diagonals that the model's points produce; (0, 0) gives 0 as Math.atan2
Atan2Deg(y, x) ==
    IF y = 0 THEN (IF x >= 0 THEN 0 ELSE 180)
    ELSE IF x = 0 THEN (IF y > 0 THEN 90 ELSE 270)
    ELSE IF x > 0 THEN (IF y > 0 THEN 45 ELSE 315)
    ELSE (IF y > 0 THEN 135 ELSE 225)

calculateBearingDeg(lat1, lon1, lat2, lon2) ==
    Atan2Deg(lon2 - lon1, lat2 - lat1)

\* A raw timestamp is absent or <<[kind, v]>>: a number, a numeric string or a
\* Long object (kind "object", toNumber) whose finite value is <<v>>, <<>> when
\* it has none (NaN, a non-numeric string); any other kind gives undefined
\* a normalisation that takes an absent timestamp for second 1
normalizeTimestampSec_EpochForAbsent(timestamp) ==
    IF timestamp = None THEN Some(1)
    ELSE IF Val(timestamp).kind \in {"number", "string", "object"} THEN Val(timestamp).v
    ELSE None

normalizeTimestampSec(timestamp) ==
    IF timestamp = None THEN None
    ELSE IF Val(timestamp).kind \in {"number", "string", "object"} THEN Val(timestamp).v
    ELSE None

\* a range test that takes speeds above 50 km/h for implausible
isValidSpeedKmh_UpTo50(speedKmh) ==
    RatLeq(<<MIN_SPEED_KMH, 1>>, speedKmh) /\ RatLeq(speedKmh, <<50, 1>>)

isValidSpeedKmh(speedKmh) ==
    RatLeq(<<MIN_SPEED_KMH, 1>>, speedKmh) /\ RatLeq(speedKmh, <<MAX_SPEED_KMH, 1>>)

\* speedMps * 3.6
Kmh(speedMps) == Rat(speedMps[1] * 18, speedMps[2] * 5)

-----------------------------------------------------------------------------
(* Speed/bearing resolver *)

NoComputed == [speedMps |-> None, reliable |-> FALSE, bearingDeg |-> None]

\* a filter that lets pairs out of order and duplicates through
SegmentAccepted_AnyOrder(points, i) ==
    LET a == points[i - 1]
        b == points[i]
        dt == b.timestampSec - a.timestampSec
    IN  /\ ~(dt > MAX_TIME_DELTA_SECONDS)
        /\ ~(haversineMeters(a.lat, a.lon, b.lat, b.lon) > MAX_JUMP_METERS)

\* a filter that lets a jump of any length through
SegmentAccepted_AnyJump(points, i) ==
    LET a == points[i - 1]
        b == points[i]
        dt == b.timestampSec - a.timestampSec
    IN  /\ ~(dt <= 0)
        /\ ~(dt > MAX_TIME_DELTA_SECONDS)

\* the segment from points[i - 1] to points[i] passes the filters of the loop
SegmentAccepted(points, i) ==
    LET a == points[i - 1]
        b == points[i]
        dt == b.timestampSec - a.timestampSec
    IN  /\ ~(dt <= 0)
        /\ ~(dt > MAX_TIME_DELTA_SECONDS)
        /\ ~(haversineMeters(a.lat, a.lon, b.lat, b.lon) > MAX_JUMP_METERS)

RECURSIVE SumSegments(_, _, _)
\* <<totalDistance, totalTime, x, y, bearings.length>> over the accepted
\* segments; x and y are the sums of the north and east components of the
\* weighted bearing vectors (cos(bearing) * dist, sin(bearing) * dist)
SumSegments(points, i, acc) ==
    IF i > Len(points) THEN acc
    ELSE LET a == points[i - 1]
             b == points[i]
         IN  IF SegmentAccepted(points, i)
             THEN SumSegments(points, i + 1,
                     <<acc[1] + haversineMeters(a.lat, a.lon, b.lat, b.lon),
                       acc[2] + (b.timestampSec - a.timestampSec),
                       acc[3] + (b.lat - a.lat),
                       acc[4] + (b.lon - a.lon),
                       acc[5] + 1>>)
             ELSE SumSegments(points, i + 1, acc)

\* a computation that always takes the bearing of the last pair of points
computeSpeedFromCache_LastPairBearing(cache, cacheKey, lat, lon, timestampSec) ==
    LET history == IF cacheKey \in DOMAIN cache THEN cache[cacheKey] ELSE <<>>
    IN  IF Len(history) = 0 THEN NoComputed
        ELSE LET points == Append(history, [lat |-> lat, lon |-> lon, timestampSec |-> timestampSec])
                 tot == SumSegments(points, 2, <<0, 0, 0, 0, 0>>)
                 a == points[Len(points) - 1]
                 b == points[Len(points)]
             IN  [speedMps |-> IF tot[2] > 0 THEN Some(Rat(tot[1], tot[2])) ELSE None,
                  reliable |-> tot[2] >= MIN_TIME_DELTA_SECONDS /\ tot[2] <= MAX_TOTAL_TIME_SECONDS,
                  bearingDeg |->
                      IF b.timestampSec - a.timestampSec > 0
                         /\ haversineMeters(a.lat, a.lon, b.lat, b.lon) > 0
                      THEN Some(calculateBearingDeg(a.lat, a.lon, b.lat, b.lon))
                      ELSE None]

\* a computation that takes the window for reliable whatever its total length
computeSpeedFromCache_NoUpperLimit(cache, cacheKey, lat, lon, timestampSec) ==
    LET history == IF cacheKey \in DOMAIN cache THEN cache[cacheKey] ELSE <<>>
    IN  IF Len(history) = 0 THEN NoComputed
        ELSE LET points == Append(history, [lat |-> lat, lon |-> lon, timestampSec |-> timestampSec])
                 tot == SumSegments(points, 2, <<0, 0, 0, 0, 0>>)
             IN  [speedMps |-> IF tot[2] > 0 THEN Some(Rat(tot[1], tot[2])) ELSE None,
                  reliable |-> tot[2] >= MIN_TIME_DELTA_SECONDS,
                  bearingDeg |-> None]

computeSpeedFromCache(cache, cacheKey, lat, lon, timestampSec) ==
    LET history == IF cacheKey \in DOMAIN cache THEN cache[cacheKey] ELSE <<>>
    IN  IF Len(history) = 0 THEN NoComputed
        ELSE LET points == Append(history, [lat |-> lat, lon |-> lon, timestampSec |-> timestampSec])
                 tot == SumSegments(points, 2, <<0, 0, 0, 0, 0>>)
                 totalDistance == tot[1]
                 totalTime == tot[2]
                 reliable == totalTime >= MIN_TIME_DELTA_SECONDS /\ totalTime <= MAX_TOTAL_TIME_SECONDS
                 speedMps == IF totalTime > 0 THEN Some(Rat(totalDistance, totalTime)) ELSE None
                 a == points[Len(points) - 1]
                 b == points[Len(points)]
                 bearingDeg ==
                     IF tot[5] > 0 THEN Some(Atan2Deg(tot[4], tot[3]))
                     ELSE IF b.timestampSec - a.timestampSec > 0
                             /\ haversineMeters(a.lat, a.lon, b.lat, b.lon) > 0
                          THEN Some(calculateBearingDeg(a.lat, a.lon, b.lat, b.lon))
                          ELSE None
             IN  [speedMps |-> speedMps, reliable |-> reliable, bearingDeg |-> bearingDeg]

\* a resolver that takes any reported speed without the range test
pickSpeedMps_AnyReported(reportedMps, computed) ==
    IF reportedMps # None
    THEN reportedMps
    ELSE IF computed.reliable /\ computed.speedMps # None
            /\ isValidSpeedKmh(Kmh(Val(computed.speedMps)))
         THEN computed.speedMps
         ELSE None

\* a resolver that keeps a reported speed of zero as the reading
pickSpeedMps_ZeroKept(reportedMps, computed) ==
    IF reportedMps # None
       /\ (Val(reportedMps)[1] = 0 \/ isValidSpeedKmh(Kmh(Val(reportedMps))))
    THEN reportedMps
    ELSE IF computed.reliable /\ computed.speedMps # None
            /\ isValidSpeedKmh(Kmh(Val(computed.speedMps)))
         THEN computed.speedMps
         ELSE None

\* a resolver that takes a computed speed whatever its time window
pickSpeedMps_AnyWindow(reportedMps, computed) ==
    IF reportedMps # None /\ isValidSpeedKmh(Kmh(Val(reportedMps)))
    THEN reportedMps
    ELSE IF computed.speedMps # None /\ isValidSpeedKmh(Kmh(Val(computed.speedMps)))
         THEN computed.speedMps
         ELSE None

pickSpeedMps(reportedMps, computed) ==
    IF reportedMps # None /\ isValidSpeedKmh(Kmh(Val(reportedMps)))
    THEN reportedMps
    ELSE IF computed.reliable /\ computed.speedMps # None
            /\ isValidSpeedKmh(Kmh(Val(computed.speedMps)))
         THEN computed.speedMps
         ELSE None

-----------------------------------------------------------------------------
(* Route variant classifier *)

\* a classifier that gives direction 0 the letter S and direction 1 the letter N
formatRouteVariant_Swapped(routeId, routeShortName, directionId, bearing) ==
    IF directionId = Some(0)
    THEN [variantKey |-> routeId \o ":" \o "S", routeNumber |-> routeShortName \o "S",
          directionLabel |-> Some("Southbound")]
    ELSE IF directionId = Some(1)
    THEN [variantKey |-> routeId \o ":" \o "N", routeNumber |-> routeShortName \o "N",
          directionLabel |-> Some("Northbound")]
    ELSE [variantKey |-> routeId \o ":U", routeNumber |-> routeShortName,
          directionLabel |-> None]

\* a classifier whose key is the route alone, whatever the direction
formatRouteVariant_RouteKey(routeId, routeShortName, directionId, bearing) ==
    [variantKey |-> routeId \o ":U",
     routeNumber |-> routeShortName \o
         (IF directionId = Some(0) THEN "N" ELSE IF directionId = Some(1) THEN "S" ELSE ""),
     directionLabel |-> None]

\* a classifier that guesses N or S from the bearing when the feed gives no
\* direction
formatRouteVariant_ByBearing(routeId, routeShortName, directionId, bearing) ==
    LET guessed == IF directionId \in {Some(0), Some(1)} \/ bearing = None THEN directionId
                   ELSE IF Val(bearing) < 90 \/ Val(bearing) >= 270 THEN Some(0) ELSE Some(1)
    IN  IF guessed = Some(0)
        THEN [variantKey |-> routeId \o ":" \o "N", routeNumber |-> routeShortName \o "N",
              directionLabel |-> Some("Northbound")]
        ELSE IF guessed = Some(1)
        THEN [variantKey |-> routeId \o ":" \o "S", routeNumber |-> routeShortName \o "S",
              directionLabel |-> Some("Southbound")]
        ELSE [variantKey |-> routeId \o ":U", routeNumber |-> routeShortName,
              directionLabel |-> None]

formatRouteVariant(routeId, routeShortName, directionId, bearing) ==
    IF directionId = Some(0)
    THEN [variantKey |-> routeId \o ":" \o "N", routeNumber |-> routeShortName \o "N",
          directionLabel |-> Some("Northbound")]
    ELSE IF directionId = Some(1)
    THEN [variantKey |-> routeId \o ":" \o "S", routeNumber |-> routeShortName \o "S",
          directionLabel |-> Some("Southbound")]
    ELSE [variantKey |-> routeId \o ":U", routeNumber |-> routeShortName,
          directionLabel |-> None]

-----------------------------------------------------------------------------
(* Route aggregation *)

RECURSIVE InsertAsc(_, _)
InsertAsc(sorted, v) ==
    IF sorted = <<>> THEN <<v>>
    ELSE IF RatLt(v, Head(sorted)) THEN <<v>> \o sorted
    ELSE <<Head(sorted)>> \o InsertAsc(Tail(sorted), v)

RECURSIVE SortAsc(_)
\* [...speeds].sort((a, b) => a - b)
SortAsc(speeds) ==
    IF speeds = <<>> THEN <<>>
    ELSE InsertAsc(SortAsc(SubSeq(speeds, 1, Len(speeds) - 1)), speeds[Len(speeds)])

RECURSIVE SumRat(_)
SumRat(speeds) ==
    IF speeds = <<>> THEN <<0, 1>> ELSE RatAdd(Head(speeds), SumRat(Tail(speeds)))

\* a trim count that may be zero
TrimCount_Floor(n) == (n * TRIM_PERCENT) \div 100

TrimCount(n) == Max(1, (n * TRIM_PERCENT) \div 100)

Trimmed(speeds) ==
    LET sorted == SortAsc(speeds)
    IN  IF Len(sorted) >= TRIM_MIN_SAMPLES
        THEN SubSeq(sorted, TrimCount(Len(sorted)) + 1, Len(sorted) - TrimCount(Len(sorted)))
        ELSE sorted

\* the value that stands for NaN among the speeds in tenths of km/h
NaN == -1

\* the speed of a bucket in tenths of km/h: parseFloat((sum / n).toFixed(1)),
\* which is NaN (0 / 0) when no sample is left
BucketSpeed(speeds) ==
    LET trimmed == Trimmed(speeds)
        sum == SumRat(trimmed)
    IN  IF Len(trimmed) = 0 THEN NaN
        ELSE ToFixed1(Rat(sum[1], sum[2] * Len(trimmed)))

LeaderboardEntry(bucket) ==
    [routeNumber |-> IF bucket.routeNumber # "" THEN bucket.routeNumber ELSE bucket.variantKey,
     routeName |-> IF bucket.routeName # "" THEN bucket.routeName ELSE "Route",
     speed |-> BucketSpeed(bucket.speeds),
     vehicleCount |-> Len(bucket.speeds)]

RECURSIVE InsertDesc(_, _)
\* stable: a row goes after the rows that are not slower than it
InsertDesc(sorted, row) ==
    IF sorted = <<>> THEN <<row>>
    ELSE IF row.speed > Head(sorted).speed THEN <<row>> \o sorted
    ELSE <<Head(sorted)>> \o InsertDesc(Tail(sorted), row)

\* rows left in the order their variants were first met
SortBySpeedDesc_Unsorted(rows) == rows

RECURSIVE SortBySpeedDesc(_)
\* .sort((a, b) => b.speed - a.speed)
SortBySpeedDesc(rows) ==
    IF rows = <<>> THEN <<>>
    ELSE InsertDesc(SortBySpeedDesc(SubSeq(rows, 1, Len(rows) - 1)), rows[Len(rows)])

\* a filter that lets every bucket through
NonEmpty_All(bucket) == TRUE

NonEmpty(bucket) == Len(bucket.speeds) > 0

Leaderboard(buckets) ==
    LET kept == SelectSeq(buckets, NonEmpty)
    IN  SortBySpeedDesc([i \in 1..Len(kept) |-> LeaderboardEntry(kept[i])])

-----------------------------------------------------------------------------
(* The route-metadata cache *)

RECURSIVE RouteMapOf(_)
\* the map built from the records of routes.txt; a later record of the same
\* route_id replaces an earlier one, a record without route_id is skipped
RouteMapOf(records) ==
    IF records = <<>> THEN [r \in {} |-> <<>>]
    ELSE LET rest == RouteMapOf(SubSeq(records, 1, Len(records) - 1))
             record == records[Len(records)]
             routeId == record.route_id
             shortName == IF record.route_short_name # "" THEN record.route_short_name ELSE routeId
             longName == IF record.route_long_name # "" THEN record.route_long_name ELSE shortName
         IN  IF routeId = "" THEN rest
             ELSE [r \in DOMAIN rest \cup {routeId} |->
                      IF r = routeId THEN [shortName |-> shortName, longName |-> longName]
                      ELSE rest[r]]

\* a refresh whose failure blanks the cache
getRouteMap_BlankOnFailure(gtfs) ==
    IF DOMAIN routeMapCache # {} /\ now - routeMapFetchedAt < ROUTE_MAP_TTL_SEC
    THEN [cache |-> routeMapCache, fetchedAt |-> routeMapFetchedAt, outcome |-> "cached"]
    ELSE IF gtfs # None
         THEN [cache |-> RouteMapOf(Val(gtfs)), fetchedAt |-> now, outcome |-> "loaded"]
         ELSE [cache |-> [r \in {} |-> <<>>], fetchedAt |-> routeMapFetchedAt,
               outcome |-> "failed"]

\* gtfs: <<>> when the static dataset cannot be loaded (fetch error, status
\* not ok, no routes.txt), else <<records>>.  The result is the cache and
\* its load time after the call, and how the call ended: answered from the
\* cache, loaded, or failed; the call returns the cache.
getRouteMap(gtfs) ==
    IF DOMAIN routeMapCache # {} /\ now - routeMapFetchedAt < ROUTE_MAP_TTL_SEC
    THEN [cache |-> routeMapCache, fetchedAt |-> routeMapFetchedAt, outcome |-> "cached"]
    ELSE IF gtfs # None
         THEN [cache |-> RouteMapOf(Val(gtfs)), fetchedAt |-> now, outcome |-> "loaded"]
         ELSE [cache |-> routeMapCache, fetchedAt |-> routeMapFetchedAt,
               outcome |-> "failed"]

ShortNameOf(routeMap, routeId) ==
    IF routeId \in DOMAIN routeMap /\ routeMap[routeId].shortName # ""
    THEN routeMap[routeId].shortName ELSE routeId

LongNameOf(routeMap, routeId) ==
    IF routeId \in DOMAIN routeMap /\ routeMap[routeId].longName # ""
    THEN routeMap[routeId].longName ELSE "Route " \o routeId

-----------------------------------------------------------------------------
(* The route-shape cache *)

\* a record of shapes.txt is [shape_id, shape_pt_lat, shape_pt_lon,
\* shape_pt_sequence]; a number is <<>> where parseFloat or parseInt gives NaN
ValidShapeRecord(record) ==
    /\ record.shape_id # ""
    /\ record.shape_pt_lat # None
    /\ record.shape_pt_lon # None
    /\ record.shape_pt_sequence # None

RECURSIVE ShapePoints(_, _)
\* shapesMap[shapeId]: the valid points of the shape in the order of the file
ShapePoints(records, shapeId) ==
    IF records = <<>> THEN <<>>
    ELSE LET record == Head(records)
         IN  (IF ValidShapeRecord(record) /\ record.shape_id = shapeId
              THEN <<[seq |-> Val(record.shape_pt_sequence),
                      lat |-> Val(record.shape_pt_lat),
                      lon |-> Val(record.shape_pt_lon)]>>
              ELSE <<>>) \o ShapePoints(Tail(records), shapeId)

RECURSIVE InsertBySeq(_, _)
InsertBySeq(sorted, point) ==
    IF sorted = <<>> THEN <<point>>
    ELSE IF point.seq < Head(sorted).seq THEN <<point>> \o sorted
    ELSE <<Head(sorted)>> \o InsertBySeq(Tail(sorted), point)

RECURSIVE SortBySeq(_)
\* points.sort((a, b) => a.seq - b.seq)
SortBySeq(points) ==
    IF points = <<>> THEN <<>>
    ELSE InsertBySeq(SortBySeq(SubSeq(points, 1, Len(points) - 1)), points[Len(points)])

\* points.map(p => [p.lon, p.lat]) of the sorted points of the shape
ShapeCoordinates(records, shapeId) ==
    LET points == SortBySeq(ShapePoints(records, shapeId))
    IN  [i \in 1..Len(points) |-> <<points[i].lon, points[i].lat>>]

\* the shape cache after shapes.txt is read: every shape of the file is set,
\* a shape that the file does not hold stays as it was
MergeShapes(cache, records) ==
    LET ids == {records[i].shape_id : i \in {j \in 1..Len(records) : ValidShapeRecord(records[j])}}
    IN  [id \in DOMAIN cache \cup ids |->
            IF id \in ids THEN ShapeCoordinates(records, id) ELSE cache[id]]

RECURSIVE MergeTrips(_, _)
\* the route-to-shape cache after trips.txt is read: a route takes the shape
\* of a record only when the cache holds no shape for it
MergeTrips(cache, records) ==
    IF records = <<>> THEN cache
    ELSE LET record == Head(records)
         IN  MergeTrips(IF record.route_id # "" /\ record.shape_id # ""
                           /\ record.route_id \notin DOMAIN cache
                        THEN [r \in DOMAIN cache \cup {record.route_id} |->
                                 IF r = record.route_id THEN record.shape_id ELSE cache[r]]
                        ELSE cache,
                        Tail(records))

\* String.prototype.toUpperCase on the route ids and short names of the model
toUpperCase(str) ==
    CASE str = "r1" -> "R1"
      [] str = "r2" -> "R2"
      [] str = "1x" -> "1X"
      [] OTHER -> str

\* replace(/[A-Z]$/, '') on the upper-cased strings of the model
StripTrailingLetter(str) ==
    CASE str = "1X" -> "1"
      [] OTHER -> str

\* Object.entries of a route map whose route ids were inserted in this order
RouteIdOrder == <<"r1", "r2">>

\* Object.keys of the short-name map: integer-like keys first
ShortNameOrder == <<"1", "2", "1X">>

RECURSIVE Concat(_)
Concat(seqs) == IF seqs = <<>> THEN <<>> ELSE Head(seqs) \o Concat(Tail(seqs))

\* the reverse map from upper-cased short name to route ids, then the
\* entries of the base numbers without trailing letter
ShortNameIndex(routeMap) ==
    LET Held(r) == r \in DOMAIN routeMap
        entries == SelectSeq(RouteIdOrder, Held)
        direct(k) == LET Named(r) == toUpperCase(routeMap[r].shortName) = k
                     IN  SelectSeq(entries, Named)
        Used(k) == direct(k) # <<>>
        shorts == SelectSeq(ShortNameOrder, Used)
        additions(k) ==
            Concat([i \in 1..Len(shorts) |->
                       IF StripTrailingLetter(shorts[i]) = k /\ k # shorts[i]
                       THEN direct(shorts[i]) ELSE <<>>])
        keys == {k \in {shorts[i] : i \in 1..Len(shorts)}
                        \cup {StripTrailingLetter(shorts[i]) : i \in 1..Len(shorts)} :
                    direct(k) \o additions(k) # <<>>}
    IN  [k \in keys |-> direct(k) \o additions(k)]

\* the first route id of the list that has a shape, <<>> when none has
FirstShapeOf(routeToShape, index, key) ==
    IF key \notin DOMAIN index THEN None
    ELSE LET routeIds == index[key]
             mapped == {i \in 1..Len(routeIds) : routeIds[i] \in DOMAIN routeToShape}
         IN  IF mapped = {} THEN None
             ELSE Some(routeToShape[routeIds[CHOOSE i \in mapped : \A j \in mapped : i <= j]])

-----------------------------------------------------------------------------
(* The history store *)

EmptyCache == [k \in {} |-> <<>>]

\* a sweep that also deletes a history exactly VEHICLE_CACHE_TTL_SEC old
StaleKeys_AtTtl(cache, nowSec) ==
    {k \in DOMAIN cache :
        \/ Len(cache[k]) = 0
        \/ nowSec - cache[k][Len(cache[k])].timestampSec >= VEHICLE_CACHE_TTL_SEC}

\* the keys the sweep deletes
StaleKeys(cache, nowSec) ==
    {k \in DOMAIN cache :
        \/ Len(cache[k]) = 0
        \/ nowSec - cache[k][Len(cache[k])].timestampSec > VEHICLE_CACHE_TTL_SEC}

\* a sweep that deletes nothing
evictStale_KeepsAll(cache, nowSec) == cache

evictStale(cache, nowSec) ==
    [k \in DOMAIN cache \ StaleKeys(cache, nowSec) |-> cache[k]]

\* a push that drops the newest snapshots of a full history
pushSnapshot_KeepOldest(hist, snapshot) ==
    LET pushed == Append(hist, snapshot)
    IN  IF Len(pushed) > MAX_HISTORY THEN SubSeq(pushed, 1, MAX_HISTORY) ELSE pushed

\* a push that puts the new snapshot first
pushSnapshot_Prepend(hist, snapshot) ==
    LET pushed == <<snapshot>> \o hist
    IN  IF Len(pushed) > MAX_HISTORY THEN SubSeq(pushed, 1, MAX_HISTORY) ELSE pushed

\* a push that leaves out a snapshot equal to the newest one
pushSnapshot_SkipRepeated(hist, snapshot) ==
    IF hist # <<>> /\ hist[Len(hist)] = snapshot THEN hist
    ELSE LET pushed == Append(hist, snapshot)
         IN  IF Len(pushed) > MAX_HISTORY
             THEN SubSeq(pushed, Len(pushed) - MAX_HISTORY + 1, Len(pushed))
             ELSE pushed

\* hist.push(snapshot); if (hist.length > MAX_HISTORY) hist.splice(0, ...)
pushSnapshot(hist, snapshot) ==
    LET pushed == Append(hist, snapshot)
    IN  IF Len(pushed) > MAX_HISTORY
        THEN SubSeq(pushed, Len(pushed) - MAX_HISTORY + 1, Len(pushed))
        ELSE pushed

\* an update that appends the snapshot to every history of the store
recordSnapshot_EveryKey(cache, cacheKey, snapshot) ==
    [k \in DOMAIN cache \cup {cacheKey} |->
        pushSnapshot(IF k \in DOMAIN cache THEN cache[k] ELSE <<>>, snapshot)]

\* vehicleCache.set(cacheKey, pushed history of vehicleCache.get(cacheKey) ?? [])
recordSnapshot(cache, cacheKey, snapshot) ==
    LET hist == IF cacheKey \in DOMAIN cache THEN cache[cacheKey] ELSE <<>>
    IN  [k \in DOMAIN cache \cup {cacheKey} |->
            IF k = cacheKey THEN pushSnapshot(hist, snapshot) ELSE cache[k]]

-----------------------------------------------------------------------------
(* One cycle of each endpoint *)

Dropped ==
    [reached |-> FALSE, cacheKey |-> None, pushed |-> None, computed |-> NoComputed,
     resolved |-> None, included |-> FALSE]

\* a bucket that keeps only the latest sample of its variant
AddSample_Overwrite(buckets, variant, routeName, speedKmH) ==
    IF \E i \in 1..Len(buckets) : buckets[i].variantKey = variant.variantKey
    THEN [i \in 1..Len(buckets) |->
             IF buckets[i].variantKey = variant.variantKey
             THEN [buckets[i] EXCEPT !.speeds = <<speedKmH>>]
             ELSE buckets[i]]
    ELSE Append(buckets, [variantKey |-> variant.variantKey,
                          routeNumber |-> variant.routeNumber,
                          routeName |-> routeName,
                          speeds |-> <<speedKmH>>])

\* routeSpeeds[variantKey].push(speedKmH), creating the bucket and its
\* routeMeta on the first sample of the variant
AddSample(buckets, variant, routeName, speedKmH) ==
    IF \E i \in 1..Len(buckets) : buckets[i].variantKey = variant.variantKey
    THEN [i \in 1..Len(buckets) |->
             IF buckets[i].variantKey = variant.variantKey
             THEN [buckets[i] EXCEPT !.speeds = Append(@, speedKmH)]
             ELSE buckets[i]]
    ELSE Append(buckets, [variantKey |-> variant.variantKey,
                          routeNumber |-> variant.routeNumber,
                          routeName |-> routeName,
                          speeds |-> <<speedKmH>>])

\* a test that lets a report without route id through
IsIncomplete_RouteUnchecked(routeId, position) ==
    \/ position = None
    \/ Val(position).latitude = None
    \/ Val(position).longitude = None

\* !routeId || !position || position.latitude === undefined ||
\* position.longitude === undefined
IsIncomplete(routeId, position) ==
    \/ routeId = ""
    \/ position = None
    \/ Val(position).latitude = None
    \/ Val(position).longitude = None

\* the bearing taken from the last two stored snapshots when neither the
\* computed nor the reported bearing exists
StoredBearing(cache, cacheKey) ==
    IF cacheKey # None /\ Val(cacheKey) \in DOMAIN cache /\ Len(cache[Val(cacheKey)]) >= 2
    THEN LET hist == cache[Val(cacheKey)]
             a == hist[Len(hist) - 1]
             b == hist[Len(hist)]
         IN  IF a.lat # b.lat \/ a.lon # b.lon
             THEN Some(calculateBearingDeg(a.lat, a.lon, b.lat, b.lon))
             ELSE None
    ELSE None

FinalBearing(computed, position, cache, cacheKey) ==
    IF computed.bearingDeg # None THEN computed.bearingDeg
    ELSE IF position.bearing # None THEN position.bearing
    ELSE StoredBearing(cache, cacheKey)

\* one iteration of the loop of getMiwayLeaderboard over the entities
LeaderboardStep(acc, entity, routeMap) ==
    IF ~entity.vehicle THEN [acc EXCEPT !.trace = Append(@, Dropped)]
    ELSE
    LET routeId == entity.routeId
        position == entity.position
        reportedSpeedMps == IF position # None THEN Val(position).speed ELSE None
        vehicleId == IF entity.vehicleId # None THEN Val(entity.vehicleId) ELSE entity.id
        timestampSeconds == normalizeTimestampSec(entity.timestamp)
        directionId == entity.directionId
    IN  IF IsIncomplete(routeId, position)
        THEN [acc EXCEPT !.trace = Append(@, Dropped)]
        ELSE
        LET latitude == Val(Val(position).latitude)
            longitude == Val(Val(position).longitude)
            cacheKey == IF vehicleId # "" THEN Some(routeId \o ":" \o vehicleId) ELSE None
            tracked == cacheKey # None /\ Truthy(timestampSeconds)
            computed == IF tracked
                        THEN computeSpeedFromCache(acc.cache, Val(cacheKey), latitude,
                                                   longitude, Val(timestampSeconds))
                        ELSE NoComputed
            resolvedSpeedMps == pickSpeedMps(reportedSpeedMps, computed)
            snapshot == [lat |-> latitude, lon |-> longitude,
                         timestampSec |-> Val(timestampSeconds)]
            cache == IF tracked THEN recordSnapshot(acc.cache, Val(cacheKey), snapshot)
                     ELSE acc.cache
            entry == [reached |-> TRUE, cacheKey |-> cacheKey,
                      pushed |-> IF tracked THEN Some(snapshot) ELSE None,
                      computed |-> computed,
                      resolved |-> resolvedSpeedMps,
                      included |-> resolvedSpeedMps # None]
        IN  IF resolvedSpeedMps = None
            THEN [acc EXCEPT !.cache = cache, !.trace = Append(@, entry)]
            ELSE LET speedKmH == Kmh(Val(resolvedSpeedMps))
                     variant == formatRouteVariant(routeId, ShortNameOf(routeMap, routeId),
                                                   directionId, None)
                 IN  [acc EXCEPT !.cache = cache,
                                 !.trace = Append(@, entry),
                                 !.buckets = AddSample(@, variant,
                                                 LongNameOf(routeMap, routeId), speedKmH)]

RECURSIVE LeaderboardLoop(_, _, _, _)
LeaderboardLoop(acc, entities, i, routeMap) ==
    IF i > Len(entities) THEN acc
    ELSE LeaderboardLoop(LeaderboardStep(acc, entities[i], routeMap), entities, i + 1, routeMap)

\* a status that needs more than MOVING_KMH to be moving
VehicleStatus_Above(speedKmh) ==
    IF RatLt(<<MOVING_KMH, 1>>, speedKmh) THEN "moving" ELSE "stopped"

\* speedKmh >= 2 ? 'moving' : 'stopped'
VehicleStatus(speedKmh) ==
    IF RatLeq(<<MOVING_KMH, 1>>, speedKmh) THEN "moving" ELSE "stopped"

\* counters that take every vehicle for a moving one
Tally_AllMoving(acc, status, speedKmh) ==
    [acc EXCEPT !.moving = @ + 1, !.totalSpeed = RatAdd(@, speedKmh)]

\* a total that leaves out the speeds of the stopped vehicles
Tally_MovingSpeedOnly(acc, status, speedKmh) ==
    [acc EXCEPT !.moving = IF status = "moving" THEN @ + 1 ELSE @,
                !.stopped = IF status = "moving" THEN @ ELSE @ + 1,
                !.totalSpeed = IF status = "moving" THEN RatAdd(@, speedKmh) ELSE @]

\* moving += 1 or stopped += 1, then totalSpeed += speedKmh
Tally(acc, status, speedKmh) ==
    [acc EXCEPT !.moving = IF status = "moving" THEN @ + 1 ELSE @,
                !.stopped = IF status = "moving" THEN @ ELSE @ + 1,
                !.totalSpeed = RatAdd(@, speedKmh)]

\* one iteration of the loop of getVehiclePositions over the entities
VehicleStep(acc, entity, routeMap) ==
    IF ~entity.vehicle THEN [acc EXCEPT !.trace = Append(@, Dropped)]
    ELSE
    LET routeId == entity.routeId
        position == entity.position
        reportedSpeedMps == IF position # None THEN Val(position).speed ELSE None
        timestampSeconds == normalizeTimestampSec(entity.timestamp)
        directionId == entity.directionId
    IN  IF IsIncomplete(routeId, position)
        THEN [acc EXCEPT !.trace = Append(@, Dropped)]
        ELSE
        LET latitude == Val(Val(position).latitude)
            longitude == Val(Val(position).longitude)
            vehicleId == IF entity.vehicleId # None THEN Val(entity.vehicleId) ELSE entity.id
            cacheKey == routeId \o ":" \o vehicleId
            tracked == Truthy(timestampSeconds)
            computed == IF tracked
                        THEN computeSpeedFromCache(acc.cache, cacheKey, latitude,
                                                   longitude, Val(timestampSeconds))
                        ELSE NoComputed
            resolvedSpeedMps == pickSpeedMps(reportedSpeedMps, computed)
            snapshot == [lat |-> latitude, lon |-> longitude,
                         timestampSec |-> Val(timestampSeconds)]
            cache == IF tracked THEN recordSnapshot(acc.cache, cacheKey, snapshot)
                     ELSE acc.cache
            included == resolvedSpeedMps # None /\ isValidSpeedKmh(Kmh(Val(resolvedSpeedMps)))
            entry == [reached |-> TRUE, cacheKey |-> Some(cacheKey),
                      pushed |-> IF tracked THEN Some(snapshot) ELSE None,
                      computed |-> computed,
                      resolved |-> resolvedSpeedMps,
                      included |-> included]
        IN  IF ~included
            THEN [acc EXCEPT !.cache = cache, !.trace = Append(@, entry)]
            ELSE LET speedKmh == Kmh(Val(resolvedSpeedMps))
                     finalBearing == FinalBearing(computed, Val(position), cache, Some(cacheKey))
                     variant == formatRouteVariant(routeId, ShortNameOf(routeMap, routeId),
                                                   directionId, finalBearing)
                     status == VehicleStatus(speedKmh)
                 IN  [Tally(acc, status, speedKmh) EXCEPT
                         !.cache = cache,
                         !.trace = Append(@, entry),
                         !.vehicles = Append(@,
                             [id |-> vehicleId,
                              label |-> entity.label,
                              routeId |-> routeId,
                              routeNumber |-> variant.routeNumber,
                              routeName |-> LongNameOf(routeMap, routeId),
                              latitude |-> latitude,
                              longitude |-> longitude,
                              bearing |-> finalBearing,
                              speedKmh |-> ToFixed1(speedKmh),
                              timestamp |-> timestampSeconds,
                              status |-> status])]

RECURSIVE VehicleLoop(_, _, _, _)
VehicleLoop(acc, entities, i, routeMap) ==
    IF i > Len(entities) THEN acc
    ELSE VehicleLoop(VehicleStep(acc, entities[i], routeMap), entities, i + 1, routeMap)

RECURSIVE LogPushes(_, _, _)
\* the snapshots the entries tr[i..] pushed, added to their keys' logs
LogPushes(log, tr, i) ==
    IF i > Len(tr) THEN log
    ELSE IF tr[i].pushed = None THEN LogPushes(log, tr, i + 1)
    ELSE LET k == Val(tr[i].cacheKey)
             old == IF k \in DOMAIN log THEN log[k] ELSE <<>>
         IN  LogPushes([x \in DOMAIN log \cup {k} |->
                           IF x = k THEN Append(old, Val(tr[i].pushed)) ELSE log[x]],
                       tr, i + 1)

\* the log of pushes after a cycle that swept `gone` and left the trace tr
AppendedAfter(gone, tr) ==
    LogPushes([k \in DOMAIN appended \ gone |-> appended[k]], tr, 1)

NoStats == [total |-> 0, moving |-> 0, stopped |-> 0, averageSpeed |-> 0]

\* What the upstream answers to the fetch of the vehicle feed: nothing (the
\* fetch rejects), a response that is not ok, or an ok response with a feed
Unreachable == [reached |-> FALSE, ok |-> FALSE, entity |-> <<>>]

NotOk == [reached |-> TRUE, ok |-> FALSE, entity |-> <<>>]

OkReply(entities) == [reached |-> TRUE, ok |-> TRUE, entity |-> entities]

Replies(feeds) == {Unreachable, NotOk} \cup {OkReply(f) : f \in feeds}

\* fetch, then throw unless response.ok, then decode: <<>> when it throws,
\* else <<feed.entity>> (getMiwayLeaderboard does the same inline)
fetchFeed(upstream) ==
    IF upstream.reached /\ upstream.ok THEN Some(upstream.entity) ELSE None

HandlerErrors ==
    [leaderboard |-> "Failed to fetch MiWay data",
     vehicles |-> "Failed to fetch MiWay vehicle positions"]

\* a failed fetch answered as an empty success
FetchFailed_EmptySuccess(endpoint, upstream) ==
    /\ response' = [endpoint |-> endpoint, status |-> 200, rows |-> <<>>,
                    vehicles |-> <<>>, stats |-> NoStats, error |-> None]
    /\ feed' = <<>>
    /\ trace' = <<>>
    /\ swept' = {}
    /\ routeSpeeds' = <<>>
    /\ cycles' = cycles + 1
    /\ fetched' = IF upstream.reached THEN "not ok" ELSE "unreachable"
    /\ lastRows' = response.rows
    /\ refresh' = "none"
    /\ UNCHANGED <<vehicleCache, routeMapCache, routeMapFetchedAt, appended, now,
                   shapeVars, pageVars, call>>

\* a failed fetch noticed only after the sweep of the history store
FetchFailed_AfterSweep(endpoint, upstream) ==
    /\ response' = [endpoint |-> endpoint, status |-> 500, rows |-> <<>>,
                    vehicles |-> <<>>, stats |-> NoStats,
                    error |-> Some(HandlerErrors[endpoint])]
    /\ feed' = <<>>
    /\ trace' = <<>>
    /\ swept' = {}
    /\ routeSpeeds' = <<>>
    /\ cycles' = cycles + 1
    /\ fetched' = IF upstream.reached THEN "not ok" ELSE "unreachable"
    /\ lastRows' = response.rows
    /\ refresh' = "none"
    /\ vehicleCache' = evictStale(vehicleCache, now)
    /\ UNCHANGED <<routeMapCache, routeMapFetchedAt, appended, now, shapeVars, pageVars, call>>

\* the request throws before it touches any cache: the handler answers 500
\* with an error body
FetchFailed(endpoint, upstream) ==
    /\ response' = [endpoint |-> endpoint, status |-> 500, rows |-> <<>>,
                    vehicles |-> <<>>, stats |-> NoStats,
                    error |-> Some(HandlerErrors[endpoint])]
    /\ feed' = <<>>
    /\ trace' = <<>>
    /\ swept' = {}
    /\ routeSpeeds' = <<>>
    /\ cycles' = cycles + 1
    /\ fetched' = IF upstream.reached THEN "not ok" ELSE "unreachable"
    /\ lastRows' = response.rows
    /\ refresh' = "none"
    /\ UNCHANGED <<vehicleCache, routeMapCache, routeMapFetchedAt, appended, now,
                   shapeVars, pageVars, call>>

\* buckets that start from those of the leaderboard before
FreshBuckets_CarriedOver == routeSpeeds

\* const routeSpeeds = {}; const routeMeta = {}
FreshBuckets == <<>>

\* upstream: the answer of the upstream to the fetch of the vehicle feed;
\* gtfs: the static dataset as for getRouteMap
getMiwayLeaderboard(upstream, gtfs) ==
    IF fetchFeed(upstream) = None
    THEN FetchFailed("leaderboard", upstream) /\ UNCHANGED asyncVars
    ELSE
    LET entities == Val(fetchFeed(upstream))
        loaded == getRouteMap(gtfs)
        nowSec == now
        gone == StaleKeys(vehicleCache, nowSec)
    IN  \E done \in {LeaderboardLoop([cache |-> evictStale(vehicleCache, nowSec),
                                 buckets |-> FreshBuckets, trace |-> <<>>],
                                entities, 1, loaded.cache)} :
        /\ routeMapCache' = loaded.cache
        /\ routeMapFetchedAt' = loaded.fetchedAt
        /\ vehicleCache' = done.cache
        /\ routeSpeeds' = done.buckets
        /\ response' = [endpoint |-> "leaderboard", status |-> 200,
                        rows |-> Leaderboard(done.buckets),
                        vehicles |-> <<>>, stats |-> NoStats, error |-> None]
        /\ feed' = entities
        /\ trace' = done.trace
        /\ swept' = gone
        /\ appended' = AppendedAfter(gone, done.trace)
        /\ cycles' = cycles + 1
        /\ fetched' = "ok"
        /\ lastRows' = response.rows
        /\ refresh' = loaded.outcome
        /\ UNCHANGED <<now, shapeVars, pageVars, asyncVars, call>>

getVehiclePositions(upstream, gtfs) ==
    IF fetchFeed(upstream) = None
    THEN FetchFailed("vehicles", upstream) /\ UNCHANGED asyncVars
    ELSE
    LET entities == Val(fetchFeed(upstream))
        loaded == getRouteMap(gtfs)
        nowSec == now
        gone == StaleKeys(vehicleCache, nowSec)
    IN  \E done \in {VehicleLoop([cache |-> evictStale(vehicleCache, nowSec),
                             vehicles |-> <<>>, totalSpeed |-> <<0, 1>>,
                             moving |-> 0, stopped |-> 0, trace |-> <<>>],
                            entities, 1, loaded.cache)} :
        LET averageSpeed == IF Len(done.vehicles) > 0
                        THEN Rat(done.totalSpeed[1], done.totalSpeed[2] * Len(done.vehicles))
                        ELSE <<0, 1>>
        IN
        /\ routeMapCache' = loaded.cache
        /\ routeMapFetchedAt' = loaded.fetchedAt
        /\ vehicleCache' = done.cache
        /\ routeSpeeds' = <<>>
        /\ response' = [endpoint |-> "vehicles", status |-> 200, rows |-> <<>>,
                        vehicles |-> done.vehicles,
                        stats |-> [total |-> Len(done.vehicles),
                                   moving |-> done.moving,
                                   stopped |-> done.stopped,
                                   averageSpeed |-> ToFixed1(averageSpeed)],
                        error |-> None]
        /\ feed' = entities
        /\ trace' = done.trace
        /\ swept' = gone
        /\ appended' = AppendedAfter(gone, done.trace)
        /\ cycles' = cycles + 1
        /\ fetched' = "ok"
        /\ lastRows' = response.rows
        /\ refresh' = loaded.outcome
        /\ UNCHANGED <<now, shapeVars, pageVars, asyncVars, call>>

\* the wall clock moves on to a later instant
Tick(t) ==
    /\ t > now
    /\ now' = t
    /\ UNCHANGED <<vehicleCache, routeMapCache, routeMapFetchedAt, feed, trace, swept,
                   routeSpeeds, response, appended, cycles, fetched, lastRows,
                   refresh, shapeVars, pageVars, asyncVars, call>>

\* zip: <<>> when the static dataset cannot be fetched or opened, else
\* <<[shapes, trips]>> with each file <<>> when the zip does not hold it,
\* else <<records>>; gtfs: as for getRouteMap, which fetches for itself.
\* The result is the four caches after the call and how the call ended.
loadShapeData(zip, gtfs) ==
    LET kept == [shapeCache |-> shapeCache, routeToShapeCache |-> routeToShapeCache,
                 shapeCacheFetchedAt |-> shapeCacheFetchedAt,
                 routeShortNameToRouteIds |-> routeShortNameToRouteIds,
                 routeMap |-> [cache |-> routeMapCache, fetchedAt |-> routeMapFetchedAt,
                               outcome |-> "none"],
                 outcome |-> "none"]
    IN  IF DOMAIN shapeCache # {} /\ now - shapeCacheFetchedAt < SHAPE_CACHE_TTL_SEC
        THEN [kept EXCEPT !.outcome = "cached"]
        ELSE IF zip = None
        THEN [kept EXCEPT !.outcome = "failed"]
        ELSE LET routeMap == getRouteMap(gtfs)
             IN  [shapeCache |-> IF Val(zip).shapes # None
                                 THEN MergeShapes(shapeCache, Val(Val(zip).shapes))
                                 ELSE shapeCache,
                  routeToShapeCache |-> IF Val(zip).trips # None
                                        THEN MergeTrips(routeToShapeCache, Val(Val(zip).trips))
                                        ELSE routeToShapeCache,
                  shapeCacheFetchedAt |-> now,
                  routeShortNameToRouteIds |-> ShortNameIndex(routeMap.cache),
                  routeMap |-> routeMap,
                  outcome |-> "loaded"]

\* the '/api/miway-route-shape' request for routeId: 400 without routeId,
\* else loadShapeData and the lookup of getRouteShape
getRouteShape(routeId, zip, gtfs) ==
    IF routeId = ""
    THEN /\ shapeReply' = Some([status |-> 400, routeId |-> "", shapeId |-> None,
                                coordinates |-> <<>>])
         /\ queries' = queries + 1
         /\ UNCHANGED <<vehicleCache, routeMapCache, routeMapFetchedAt, now, feed, trace,
                        swept, routeSpeeds, response, appended, cycles, fetched, lastRows,
                        refresh, shapeCache, routeToShapeCache, shapeCacheFetchedAt,
                        routeShortNameToRouteIds, shapeLoad, asyncVars, pageVars,
                        call>>
    ELSE
    LET loaded == loadShapeData(zip, gtfs)
        key == toUpperCase(routeId)
        byShortName == FirstShapeOf(loaded.routeToShapeCache,
                                    loaded.routeShortNameToRouteIds, key)
        byBaseName == FirstShapeOf(loaded.routeToShapeCache,
                                   loaded.routeShortNameToRouteIds,
                                   StripTrailingLetter(key))
        shapeId == IF routeId \in DOMAIN loaded.routeToShapeCache
                   THEN Some(loaded.routeToShapeCache[routeId])
                   ELSE IF byShortName # None THEN byShortName ELSE byBaseName
        coordinates == IF shapeId # None /\ Val(shapeId) \in DOMAIN loaded.shapeCache
                       THEN loaded.shapeCache[Val(shapeId)] ELSE <<>>
    IN  /\ shapeCache' = loaded.shapeCache
        /\ routeToShapeCache' = loaded.routeToShapeCache
        /\ shapeCacheFetchedAt' = loaded.shapeCacheFetchedAt
        /\ routeShortNameToRouteIds' = loaded.routeShortNameToRouteIds
        /\ routeMapCache' = loaded.routeMap.cache
        /\ routeMapFetchedAt' = loaded.routeMap.fetchedAt
        /\ refresh' = loaded.routeMap.outcome
        /\ shapeReply' = Some([status |-> 200, routeId |-> routeId, shapeId |-> shapeId,
                               coordinates |-> coordinates])
        /\ shapeLoad' = [outcome |-> loaded.outcome,
                         zip |-> IF loaded.outcome = "loaded" THEN zip ELSE shapeLoad.zip]
        /\ queries' = queries + 1
        /\ UNCHANGED <<vehicleCache, now, feed, trace, swept, routeSpeeds, response,
                       appended, cycles, fetched, lastRows, asyncVars, pageVars,
                       call>>

-----------------------------------------------------------------------------
(* Requests in flight together.  An async function runs from one await to   *)
(* the next without interruption; between two awaits of one request any     *)
(* other request may run.                                                   *)

\* the request slots
Requests == {1, 2}

Idle ==
    [pc |-> "idle", endpoint |-> "none", serial |-> 0, entities |-> <<>>,
     startedAt |-> 0, routeMap |-> [r \in {} |-> <<>>], outcome |-> "none"]

\* a request that sweeps the store before it waits for the route map
BeforeRouteMap_Sweeps(r) ==
    [cache |-> evictStale(vehicleCache, now),
     log |-> <<[serial |-> inflight[r].serial, step |-> "sweep", key |-> None]>>]

\* what a request does to the store between the decode of the feed and its
\* wait for the route map: nothing
BeforeRouteMap(r) == [cache |-> vehicleCache, log |-> <<>>]

RECURSIVE LoopSteps(_, _, _)
\* the reads and appends of the loop whose trace is tr, from entry i on
LoopSteps(serial, tr, i) ==
    IF i > Len(tr) THEN <<>>
    ELSE (IF tr[i].pushed = None THEN <<>>
          ELSE <<[serial |-> serial, step |-> "read", key |-> tr[i].cacheKey],
                 [serial |-> serial, step |-> "append", key |-> tr[i].cacheKey]>>)
         \o LoopSteps(serial, tr, i + 1)

\* the handler is called: fetch(GTFS_RT_VEHICLES_URL) is awaited
BeginRequest(r, endpoint) ==
    /\ inflight[r].pc = "idle"
    /\ inflight' = [inflight EXCEPT ![r] = [Idle EXCEPT !.pc = "fetch",
                                                        !.endpoint = endpoint,
                                                        !.serial = begun + 1]]
    /\ begun' = begun + 1
    /\ UNCHANGED <<vehicleCache, routeMapCache, routeMapFetchedAt, now, feed, trace,
                   swept, routeSpeeds, response, appended, cycles, fetched, lastRows,
                   refresh, shapeVars, pageVars, storeLog, call>>

\* the fetch settles: the request throws unless the response is ok, else
\* response.arrayBuffer() is awaited
FetchSettles(r, upstream) ==
    /\ inflight[r].pc = "fetch"
    /\ IF fetchFeed(upstream) = None
       THEN /\ FetchFailed(inflight[r].endpoint, upstream)
            /\ inflight' = [inflight EXCEPT ![r] = Idle]
            /\ UNCHANGED <<storeLog, begun>>
       ELSE /\ inflight' = [inflight EXCEPT ![r].pc = "body",
                                            ![r].entities = Val(fetchFeed(upstream))]
            /\ UNCHANGED <<vehicleCache, routeMapCache, routeMapFetchedAt, now, feed,
                           trace, swept, routeSpeeds, response, appended, cycles,
                           fetched, lastRows, refresh, shapeVars, pageVars, storeLog, begun, call>>

\* the body arrives and is decoded; getRouteMap is called and runs to its
\* return (the cache is fresh) or to its fetch of the static dataset
BodyArrives(r) ==
    /\ inflight[r].pc = "body"
    /\ LET before == BeforeRouteMap(r)
           fresh == DOMAIN routeMapCache # {}
                    /\ now - routeMapFetchedAt < ROUTE_MAP_TTL_SEC
       IN  /\ vehicleCache' = before.cache
           /\ storeLog' = storeLog \o before.log
           /\ inflight' = [inflight EXCEPT
                              ![r].pc = IF fresh THEN "resume" ELSE "gtfs",
                              ![r].startedAt = now,
                              ![r].routeMap = routeMapCache,
                              ![r].outcome = IF fresh THEN "cached" ELSE "none"]
    /\ UNCHANGED <<routeMapCache, routeMapFetchedAt, now, feed, trace, swept,
                   routeSpeeds, response, appended, cycles, fetched, lastRows,
                   refresh, shapeVars, pageVars, begun, call>>

\* the fetch of the static dataset settles: getRouteMap catches a failure and
\* returns the cache, else it awaits response.arrayBuffer()
StaticFetchSettles(r, ok) ==
    /\ inflight[r].pc = "gtfs"
    /\ inflight' = [inflight EXCEPT
                       ![r].pc = IF ok THEN "zip" ELSE "resume",
                       ![r].routeMap = routeMapCache,
                       ![r].outcome = IF ok THEN "none" ELSE "failed"]
    /\ UNCHANGED <<vehicleCache, routeMapCache, routeMapFetchedAt, now, feed, trace,
                   swept, routeSpeeds, response, appended, cycles, fetched, lastRows,
                   refresh, shapeVars, pageVars, storeLog, begun, call>>

\* the zip arrives: routes.txt is parsed into the cache, which is stamped with
\* the instant getRouteMap was called; without routes.txt the cache is kept
StaticBodyArrives(r, gtfs) ==
    /\ inflight[r].pc = "zip"
    /\ IF gtfs = None
       THEN /\ inflight' = [inflight EXCEPT ![r].pc = "resume",
                                            ![r].routeMap = routeMapCache,
                                            ![r].outcome = "failed"]
            /\ UNCHANGED <<routeMapCache, routeMapFetchedAt>>
       ELSE /\ routeMapCache' = RouteMapOf(Val(gtfs))
            /\ routeMapFetchedAt' = inflight[r].startedAt
            /\ inflight' = [inflight EXCEPT ![r].pc = "resume",
                                            ![r].routeMap = RouteMapOf(Val(gtfs)),
                                            ![r].outcome = "loaded"]
    /\ UNCHANGED <<vehicleCache, now, feed, trace, swept, routeSpeeds, response,
                   appended, cycles, fetched, lastRows, refresh, shapeVars, pageVars, storeLog,
                   begun, call>>

\* the request resumes with the route map: the sweep, the loop over the
\* entities and the answer
Resumes(r) ==
    /\ inflight[r].pc = "resume"
    /\ LET entities == inflight[r].entities
           routeMap == inflight[r].routeMap
           serial == inflight[r].serial
           nowSec == now
           gone == StaleKeys(vehicleCache, nowSec)
           start == evictStale(vehicleCache, nowSec)
           sweep == <<[serial |-> serial, step |-> "sweep", key |-> None]>>
       IN  IF inflight[r].endpoint = "leaderboard"
           THEN \E done \in {LeaderboardLoop([cache |-> start, buckets |-> FreshBuckets,
                                               trace |-> <<>>], entities, 1, routeMap)} :
                /\ vehicleCache' = done.cache
                /\ routeSpeeds' = done.buckets
                /\ response' = [endpoint |-> "leaderboard", status |-> 200,
                                rows |-> Leaderboard(done.buckets),
                                vehicles |-> <<>>, stats |-> NoStats, error |-> None]
                /\ trace' = done.trace
                /\ appended' = AppendedAfter(gone, done.trace)
                /\ storeLog' = storeLog \o sweep \o LoopSteps(serial, done.trace, 1)
           ELSE \E done \in {VehicleLoop([cache |-> start, vehicles |-> <<>>,
                                           totalSpeed |-> <<0, 1>>, moving |-> 0,
                                           stopped |-> 0, trace |-> <<>>],
                                          entities, 1, routeMap)} :
                LET averageSpeed ==
                        IF Len(done.vehicles) > 0
                        THEN Rat(done.totalSpeed[1], done.totalSpeed[2] * Len(done.vehicles))
                        ELSE <<0, 1>>
                IN
                /\ vehicleCache' = done.cache
                /\ routeSpeeds' = <<>>
                /\ response' = [endpoint |-> "vehicles", status |-> 200, rows |-> <<>>,
                                vehicles |-> done.vehicles,
                                stats |-> [total |-> Len(done.vehicles),
                                           moving |-> done.moving,
                                           stopped |-> done.stopped,
                                           averageSpeed |-> ToFixed1(averageSpeed)],
                                error |-> None]
                /\ trace' = done.trace
                /\ appended' = AppendedAfter(gone, done.trace)
                /\ storeLog' = storeLog \o sweep \o LoopSteps(serial, done.trace, 1)
    /\ feed' = inflight[r].entities
    /\ swept' = StaleKeys(vehicleCache, now)
    /\ cycles' = cycles + 1
    /\ fetched' = "ok"
    /\ lastRows' = response.rows
    /\ refresh' = inflight[r].outcome
    /\ inflight' = [inflight EXCEPT ![r] = Idle]
    /\ UNCHANGED <<routeMapCache, routeMapFetchedAt, now, shapeVars, pageVars, begun, call>>

-----------------------------------------------------------------------------
(* The leaderboard page (App.tsx): the update queue and processNextItem *)

IndexOfRoute(items, routeNumber) ==
    LET found == {i \in 1..Len(items) : items[i].routeNumber = routeNumber}
    IN  IF found = {} THEN 0 ELSE CHOOSE i \in found : \A j \in found : i <= j

RECURSIVE upsertAll(_, _)
\* LeaderboardQueue.upsertAll: each item replaces the queued update of its
\* route where it stands, or joins the back of the queue
upsertAll(queue, items) ==
    IF items = <<>> THEN queue
    ELSE LET item == Head(items)
             at == IndexOfRoute(queue, item.routeNumber)
         IN  upsertAll(IF at = 0 THEN Append(queue, item)
                       ELSE [queue EXCEPT ![at] = item],
                       Tail(items))

\* the rows of the reply that are not in the shown list with the same speed
changedData(current, newData) ==
    LET Changed(newItem) ==
            LET at == IndexOfRoute(current, newItem.routeNumber)
            IN  at = 0 \/ current[at].speed # newItem.speed
    IN  SelectSeq(newData, Changed)

\* a list made of the update alone
sortedData_UpdateOnly(prevData, nextItem) == <<nextItem>>

\* a list that takes the update where the route stood, without sorting
sortedData_Unsorted(prevData, nextItem) ==
    LET existingIndex == IndexOfRoute(prevData, nextItem.routeNumber)
    IN  IF existingIndex # 0 THEN [prevData EXCEPT ![existingIndex] = nextItem]
        ELSE Append(prevData, nextItem)

\* the list after the update: the row of its route replaced, or the update
\* added at the end, then sorted by descending speed
sortedData(prevData, nextItem) ==
    LET existingIndex == IndexOfRoute(prevData, nextItem.routeNumber)
        newData == IF existingIndex # 0 THEN [prevData EXCEPT ![existingIndex] = nextItem]
                   ELSE Append(prevData, nextItem)
    IN  SortBySpeedDesc(newData)

\* sortedData.some((item, index) => prevData[index]?.routeNumber !== item.routeNumber)
orderChanged(prevData, sorted) ==
    \E index \in 1..Len(sorted) :
        \/ index > Len(prevData)
        \/ prevData[index].routeNumber # sorted[index].routeNumber

\* a timeout that never waits for the animation
UpdateDelay_NoWait(changed) == 0

\* setTimeout(processNextItem, orderChanged ? 1000 : 0)
UpdateDelay(changed) == IF changed THEN ANIMATION_MS ELSE 0

\* fetchLeaderboard settles: reply is <<>> when the fetch fails or the status
\* is not 200, else <<rows>>
fetchLeaderboard(reply) ==
    /\ pageQueue' = IF reply = None THEN pageQueue
                    ELSE upsertAll(pageQueue, changedData(pageData, Val(reply)))
    /\ pageLast' = [pageLast EXCEPT !.heard =
                        IF reply = None THEN {}
                        ELSE {Val(reply)[i].routeNumber : i \in 1..Len(Val(reply))}]
    /\ UNCHANGED <<pageData, pageTimer, pageSince>>
    /\ UNCHANGED <<vehicleCache, routeMapCache, routeMapFetchedAt, now, feed, trace,
                   swept, routeSpeeds, response, appended, cycles, fetched, lastRows,
                   refresh, shapeVars, asyncVars, call>>

\* the timeout is due: processNextItem
processNextItem ==
    /\ pageTimer = 0
    /\ IF pageQueue # <<>>
       THEN LET nextItem == Head(pageQueue)
                sorted == sortedData(pageData, nextItem)
                changed == orderChanged(pageData, sorted)
            IN  /\ pageQueue' = Tail(pageQueue)
                /\ pageData' = sorted
                /\ pageTimer' = UpdateDelay(changed)
                /\ pageSince' = 0
                /\ pageLast' = [run |-> 1 - pageLast.run, kind |-> "applied",
                                orderChanged |-> changed,
                                replaced |-> IndexOfRoute(pageData, nextItem.routeNumber) # 0,
                                heard |-> pageLast.heard]
       ELSE /\ pageTimer' = EMPTY_POLL_MS
            /\ pageLast' = [pageLast EXCEPT !.run = 1 - @, !.kind = "empty"]
            /\ UNCHANGED <<pageQueue, pageData, pageSince>>
    /\ UNCHANGED <<vehicleCache, routeMapCache, routeMapFetchedAt, now, feed, trace,
                   swept, routeSpeeds, response, appended, cycles, fetched, lastRows,
                   refresh, shapeVars, asyncVars, call>>

\* ms milliseconds pass in the page
PageElapse(ms) ==
    /\ pageTimer' = Max(0, pageTimer - ms)
    /\ pageSince' = IF pageSince + ms > ANIMATION_MS THEN ANIMATION_MS ELSE pageSince + ms
    /\ UNCHANGED <<pageData, pageQueue, pageLast>>
    /\ UNCHANGED <<vehicleCache, routeMapCache, routeMapFetchedAt, now, feed, trace,
                   swept, routeSpeeds, response, appended, cycles, fetched, lastRows,
                   refresh, shapeVars, asyncVars, call>>

-----------------------------------------------------------------------------
(* The environment of the fleet specification: what the upstream feed and   *)
(* the static dataset may deliver, and the instants the clock visits        *)

MaxFeed == 2

MaxCycles == 2

Long(n) == Some([kind |-> "object", v |-> Some(n)])

\* a well-formed vehicle entity on the meridian of the reference point
Report(id, routeId, vehicleId, lat, speed, timestamp, directionId) ==
    [id |-> id, vehicle |-> TRUE, routeId |-> routeId, vehicleId |-> vehicleId,
     position |-> Some([latitude |-> Some(lat), longitude |-> Some(0),
                        speed |-> speed, bearing |-> None]),
     timestamp |-> timestamp, directionId |-> directionId, label |-> None]

\* an entity that carries no vehicle record (a trip update or an alert)
NoVehicleEntity ==
    [id |-> "e9", vehicle |-> FALSE, routeId |-> "", vehicleId |-> None,
     position |-> None, timestamp |-> None, directionId |-> None, label |-> None]

Mps5 == <<5, 1>>

Mps10 == <<10, 1>>

Mps80Kmh == <<200, 9>>

\* Vehicle a of route r1, northbound, seen at two instants 30 s and 100 m
\* apart and reporting no speed; vehicle b of the same route and direction
\* reporting 18 km/h; a vehicle of route r2 without descriptor or direction
\* reporting 36 km/h (neither carries a timestamp); a southbound vehicle of
\* route r1 whose descriptor has no id, reporting 80 km/h
FleetEntities ==
    { Report("e1", "r1", Some("a"), 0, None, Long(1000), Some(0)),
      Report("e1", "r1", Some("a"), 100, None, Long(1030), Some(0)),
      Report("e2", "r1", Some("b"), 0, Some(Mps5), None, Some(0)),
      Report("e3", "r2", None, 0, Some(Mps10), None, None),
      Report("e4", "r1", Some(""), 0, Some(Mps80Kmh), Long(1000), Some(1)) }

FeedsOf(entities, n) == UNION {[1..k -> entities] : k \in 0..n}

\* entity ids are unique within one feed message
UniqueIds(f) == \A i, j \in 1..Len(f) : i # j => f[i].id # f[j].id

StaticRoutes ==
    <<[route_id |-> "r1", route_short_name |-> "1", route_long_name |-> "Dundas"]>>

FleetUpstreams ==
    Replies({g \in FeedsOf(FleetEntities, MaxFeed) : UniqueIds(g)})

Init ==
    /\ vehicleCache = EmptyCache
    /\ routeMapCache = [r \in {} |-> <<>>]
    /\ routeMapFetchedAt = 0
    /\ now = 1040
    /\ feed = <<>>
    /\ trace = <<>>
    /\ swept = {}
    /\ routeSpeeds = <<>>
    /\ response = [endpoint |-> "none", status |-> 0, rows |-> <<>>,
                   vehicles |-> <<>>, stats |-> NoStats, error |-> None]
    /\ appended = EmptyCache
    /\ cycles = 0
    /\ fetched = "none"
    /\ lastRows = <<>>
    /\ refresh = "none"
    /\ shapeCache = [s \in {} |-> <<>>]
    /\ routeToShapeCache = [r \in {} |-> ""]
    /\ shapeCacheFetchedAt = 0
    /\ routeShortNameToRouteIds = [k \in {} |-> <<>>]
    /\ shapeReply = None
    /\ shapeLoad = [outcome |-> "none", zip |-> None]
    /\ queries = 0
    /\ inflight = [r \in Requests |-> Idle]
    /\ storeLog = <<>>
    /\ begun = 0
    /\ pageData = <<>>
    /\ pageQueue = <<>>
    /\ pageTimer = 0
    /\ pageSince = ANIMATION_MS
    /\ pageLast = [run |-> 0, kind |-> "none", orderChanged |-> FALSE, replaced |-> FALSE,
                   heard |-> {}]
    /\ call = [fn |-> "none"]

LeaderboardRequest ==
    /\ cycles < MaxCycles
    /\ \E upstream \in FleetUpstreams, gtfs \in {Some(StaticRoutes)} :
          getMiwayLeaderboard(upstream, gtfs)

VehiclesRequest ==
    /\ cycles < MaxCycles
    /\ \E upstream \in FleetUpstreams, gtfs \in {Some(StaticRoutes)} :
          getVehiclePositions(upstream, gtfs)

Next == LeaderboardRequest \/ VehiclesRequest

Spec == Init /\ [][Next]_vars

-----------------------------------------------------------------------------
(* The history specification: one vehicle polled many times by either      *)
(* endpoint while the clock runs past the cache TTL                         *)

HistMaxCycles == 10

\* vehicle a of route r1 at two instants 10 s and 100 m apart, no speed
HistEntities ==
    { Report("e1", "r1", Some("a"), 0, None, Long(1000), None),
      Report("e1", "r1", Some("a"), 100, None, Long(1010), None) }

HistUpstreams == Replies({g \in FeedsOf(HistEntities, 1) : UniqueIds(g)})

\* 301 s after the earlier and after the later of the two instants
HistNows == {1301, 1311}

HistLeaderboardRequest ==
    /\ cycles < HistMaxCycles
    /\ \E upstream \in HistUpstreams, gtfs \in {Some(StaticRoutes)} :
          getMiwayLeaderboard(upstream, gtfs)

HistVehiclesRequest ==
    /\ cycles < HistMaxCycles
    /\ \E upstream \in HistUpstreams, gtfs \in {Some(StaticRoutes)} :
          getVehiclePositions(upstream, gtfs)

HistClockAdvance == \E t \in HistNows : Tick(t)

NextHist == HistLeaderboardRequest \/ HistVehiclesRequest \/ HistClockAdvance

SpecHist == Init /\ [][NextHist]_vars

-----------------------------------------------------------------------------
(* The sweep specification: two vehicles last seen 10 s apart, polled by    *)
(* either endpoint at instants around the cache TTL                         *)

SweepMaxCycles == 3

\* vehicle a of route r1 seen at 1000 and vehicle b of route r1 seen at 1010
SweepEntities ==
    { Report("e1", "r1", Some("a"), 0, None, Long(1000), None),
      Report("e2", "r1", Some("b"), 0, None, Long(1010), None) }

SweepUpstreams ==
    Replies({g \in FeedsOf(SweepEntities, MaxFeed) : UniqueIds(g)})

\* 299 s, 300 s and 301 s after the first instant, 301 s after the second
SweepNows == {1299, 1300, 1301, 1311}

SweepLeaderboardRequest ==
    /\ cycles < SweepMaxCycles
    /\ \E upstream \in SweepUpstreams, gtfs \in {Some(StaticRoutes)} :
          getMiwayLeaderboard(upstream, gtfs)

SweepVehiclesRequest ==
    /\ cycles < SweepMaxCycles
    /\ \E upstream \in SweepUpstreams, gtfs \in {Some(StaticRoutes)} :
          getVehiclePositions(upstream, gtfs)

SweepClockAdvance == \E t \in SweepNows : Tick(t)

NextSweep == SweepLeaderboardRequest \/ SweepVehiclesRequest \/ SweepClockAdvance

SpecSweep == Init /\ [][NextSweep]_vars

-----------------------------------------------------------------------------
(* The bearing specification: vehicles whose feed direction is absent or    *)
(* contradicts their bearing, polled by either endpoint                     *)

BearingMaxCycles == 2

\* the report with the reported bearing of its position replaced
WithBearing(entity, bearing) ==
    [entity EXCEPT !.position = Some([Val(entity.position) EXCEPT !.bearing = bearing])]

\* Vehicle a of route r1, without direction or speed, at two instants 10 s
\* apart, 100 m further north at the second; under the entity id e2 vehicle b
\* of route r1 without direction reporting 18 km/h, with and without a
\* reported bearing of 90 degrees, or vehicle c of route r1 declared
\* northbound and reporting 36 km/h on a bearing of 180 degrees; under the
\* entity id e1 also vehicle d of route r1 declared southbound and reporting
\* 18 km/h
BearingEntities ==
    { Report("e1", "r1", Some("a"), 0, None, Long(1000), None),
      Report("e1", "r1", Some("a"), 100, None, Long(1010), None),
      Report("e1", "r1", Some("d"), 0, Some(Mps5), None, Some(1)),
      Report("e2", "r1", Some("b"), 0, Some(Mps5), None, None),
      WithBearing(Report("e2", "r1", Some("b"), 0, Some(Mps5), None, None), Some(90)),
      WithBearing(Report("e2", "r1", Some("c"), 0, Some(Mps10), None, Some(0)), Some(180)) }

\* every feed of these entities: entity ids are unique within a feed
BearingUpstreams ==
    Replies({g \in FeedsOf(BearingEntities, 2) : UniqueIds(g)})

BearingLeaderboardRequest ==
    /\ cycles < BearingMaxCycles
    /\ \E upstream \in BearingUpstreams, gtfs \in {Some(StaticRoutes)} :
          getMiwayLeaderboard(upstream, gtfs)

BearingVehiclesRequest ==
    /\ cycles < BearingMaxCycles
    /\ \E upstream \in BearingUpstreams, gtfs \in {Some(StaticRoutes)} :
          getVehiclePositions(upstream, gtfs)

NextBearing == BearingLeaderboardRequest \/ BearingVehiclesRequest

SpecBearing == Init /\ [][NextBearing]_vars

-----------------------------------------------------------------------------
(* The statistics specification: live snapshots of any part of a roster of  *)
(* seven vehicles that report their speed                                   *)

StatsMaxCycles == 1

\* seven vehicles reporting 2 km/h, 1.999 km/h, 10 km/h, 12.5 km/h, 75 km/h,
\* 90 km/h and 1 km/h, in m/s
StatsRoster ==
    << Report("e1", "r1", Some("a"), 0, Some(<<5, 9>>), None, Some(0)),
       Report("e2", "r1", Some("b"), 0, Some(<<1999, 3600>>), None, Some(0)),
       Report("e3", "r1", Some("c"), 0, Some(<<25, 9>>), None, Some(1)),
       Report("e4", "r2", Some("d"), 0, Some(<<125, 36>>), None, None),
       Report("e5", "r2", Some("e"), 0, Some(<<125, 6>>), None, None),
       Report("e6", "r2", Some("f"), 0, Some(<<25, 1>>), None, None),
       Report("e7", "r1", Some("g"), 0, Some(<<5, 18>>), None, Some(0)) >>

RECURSIVE SubFeeds(_)
\* the feeds that hold some of the vehicles of a roster, in its order
SubFeeds(roster) ==
    IF roster = <<>> THEN {<<>>}
    ELSE LET rest == SubFeeds(Tail(roster))
         IN  rest \cup {<<Head(roster)>> \o f : f \in rest}

StatsUpstreams == Replies(SubFeeds(StatsRoster))

StatsVehiclesRequest ==
    /\ cycles < StatsMaxCycles
    /\ \E upstream \in StatsUpstreams, gtfs \in {Some(StaticRoutes)} :
          getVehiclePositions(upstream, gtfs)

NextStats == StatsVehiclesRequest

SpecStats == Init /\ [][NextStats]_vars

-----------------------------------------------------------------------------
(* The paths specification: two vehicles without reported speed, one of     *)
(* them under a descriptor with an empty id, polled by either endpoint      *)

PathsMaxCycles == 2

\* vehicle a of route r1 and a vehicle of route r1 whose descriptor id is the
\* empty string, each at two instants 30 s and 100 m apart
PathsEntities ==
    { Report("e1", "r1", Some("a"), 0, None, Long(1000), None),
      Report("e1", "r1", Some("a"), 100, None, Long(1030), None),
      Report("e2", "r1", Some(""), 0, None, Long(1000), None),
      Report("e2", "r1", Some(""), 100, None, Long(1030), None) }

PathsFeeds == {g \in FeedsOf(PathsEntities, 2) : UniqueIds(g)}

PathsUpstreams == Replies(PathsFeeds)

PathsLeaderboardRequest ==
    /\ cycles < PathsMaxCycles
    /\ \E upstream \in PathsUpstreams, gtfs \in {Some(StaticRoutes)} :
          getMiwayLeaderboard(upstream, gtfs)

PathsVehiclesRequest ==
    /\ cycles < PathsMaxCycles
    /\ \E upstream \in PathsUpstreams, gtfs \in {Some(StaticRoutes)} :
          getVehiclePositions(upstream, gtfs)

NextPaths == PathsLeaderboardRequest \/ PathsVehiclesRequest

SpecPaths == Init /\ [][NextPaths]_vars

-----------------------------------------------------------------------------
(* The malformed-entity specification: feeds that mix well-formed vehicles  *)
(* with entities lacking the vehicle record, the route or the coordinates   *)

MalformedMaxCycles == 2

\* vehicle a of route r1 at two instants 30 s and 100 m apart, without speed,
\* and vehicle b of route r1 reporting 18 km/h
WellFormedEntities ==
    { Report("e1", "r1", Some("a"), 0, None, Long(1000), None),
      Report("e1", "r1", Some("a"), 100, None, Long(1030), None),
      Report("e2", "r1", Some("b"), 0, Some(Mps5), None, None) }

\* under the entity id e9: no vehicle record; a vehicle without route id; a
\* report of vehicle a without position; one without latitude; each of the
\* last three reports 36 km/h at the instant 1030
MalformedEntities ==
    { NoVehicleEntity,
      Report("e9", "", Some("z"), 50, Some(Mps10), Long(1030), None),
      [Report("e9", "r1", Some("a"), 50, Some(Mps10), Long(1030), None)
          EXCEPT !.position = None],
      [Report("e9", "r1", Some("a"), 50, Some(Mps10), Long(1030), None)
          EXCEPT !.position = Some([latitude |-> None, longitude |-> Some(0),
                                    speed |-> Some(Mps10), bearing |-> None])] }

MalformedUpstreams ==
    Replies({g \in FeedsOf(WellFormedEntities \cup MalformedEntities, 3) : UniqueIds(g)})

MalformedLeaderboardRequest ==
    /\ cycles < MalformedMaxCycles
    /\ \E upstream \in MalformedUpstreams, gtfs \in {Some(StaticRoutes)} :
          getMiwayLeaderboard(upstream, gtfs)

MalformedVehiclesRequest ==
    /\ cycles < MalformedMaxCycles
    /\ \E upstream \in MalformedUpstreams, gtfs \in {Some(StaticRoutes)} :
          getVehiclePositions(upstream, gtfs)

NextMalformed == MalformedLeaderboardRequest \/ MalformedVehiclesRequest

SpecMalformed == Init /\ [][NextMalformed]_vars

-----------------------------------------------------------------------------
(* The route-metadata specification: the static dataset may fail to load,   *)
(* or load with other records, while the clock runs past the cache TTL      *)

RoutesMaxCycles == 3

\* vehicle a of route r1 without direction reporting 18 km/h; under the
\* entity id e2 vehicle b of route r2 reporting 36 km/h, northbound or
\* without direction
RoutesEntities ==
    { Report("e1", "r1", Some("a"), 0, Some(Mps5), None, None),
      Report("e2", "r2", Some("b"), 0, Some(Mps10), None, Some(0)),
      Report("e2", "r2", Some("b"), 0, Some(Mps10), None, None) }

\* a later edition of routes.txt: route r1 renamed, route r2 added without
\* long name
RenamedRoutes ==
    <<[route_id |-> "r1", route_short_name |-> "1X", route_long_name |-> "Dundas Express"],
      [route_id |-> "r2", route_short_name |-> "2", route_long_name |-> ""]>>

\* the load fails, or gives routes.txt in one of two editions or without
\* records
RoutesDatasets == {None, Some(StaticRoutes), Some(RenamedRoutes), Some(<<>>)}

RoutesUpstreams ==
    Replies({g \in FeedsOf(RoutesEntities, 2) : UniqueIds(g)})

\* one second before and exactly ROUTE_MAP_TTL_SEC after the first instant
RoutesNows == {44239, 44240}

RoutesLeaderboardRequest ==
    /\ cycles < RoutesMaxCycles
    /\ \E upstream \in RoutesUpstreams, gtfs \in RoutesDatasets :
          getMiwayLeaderboard(upstream, gtfs)

RoutesVehiclesRequest ==
    /\ cycles < RoutesMaxCycles
    /\ \E upstream \in RoutesUpstreams, gtfs \in RoutesDatasets :
          getVehiclePositions(upstream, gtfs)

RoutesClockAdvance == \E t \in RoutesNows : Tick(t)

NextRoutes == RoutesLeaderboardRequest \/ RoutesVehiclesRequest \/ RoutesClockAdvance

SpecRoutes == Init /\ [][NextRoutes]_vars

-----------------------------------------------------------------------------
(* The route-shape specification: shapes of routes are queried while the    *)
(* static dataset changes upstream and the clock runs past the cache TTL    *)

ShapesMaxQueries == 3

ShapePoint(shapeId, seq, lat, lon) ==
    [shape_id |-> shapeId, shape_pt_sequence |-> Some(seq),
     shape_pt_lat |-> Some(lat), shape_pt_lon |-> Some(lon)]

Trip(routeId, shapeId) == [route_id |-> routeId, shape_id |-> shapeId]

\* an edition where route r1 runs on shape s1, listed out of sequence and
\* with a record whose latitude is not a number
FirstEdition ==
    [shapes |-> Some(<<ShapePoint("s1", 2, 100, 0), ShapePoint("s1", 1, 0, 0),
                       [ShapePoint("s1", 3, 200, 0) EXCEPT !.shape_pt_lat = None]>>),
     trips |-> Some(<<Trip("r1", "s1"), Trip("r1", "s9"), Trip("", "s1")>>)]

\* a later edition where route r1 runs on the new shape s2
ReassignedEdition ==
    [shapes |-> Some(<<ShapePoint("s2", 1, 0, 0), ShapePoint("s2", 2, 0, 300)>>),
     trips |-> Some(<<Trip("r1", "s2")>>)]

\* a later edition where shape s1 has another geometry
ReshapedEdition ==
    [shapes |-> Some(<<ShapePoint("s1", 1, 0, 0), ShapePoint("s1", 2, 500, 0)>>),
     trips |-> Some(<<Trip("r1", "s1")>>)]

\* an edition without shapes.txt and trips.txt
BareEdition == [shapes |-> None, trips |-> None]

ShapeZips ==
    {None, Some(FirstEdition), Some(ReassignedEdition), Some(ReshapedEdition),
     Some(BareEdition)}

ShapeDatasets == {None, Some(StaticRoutes), Some(RenamedRoutes)}

\* no routeId, a route id, a short name, a short name in lower case with a
\* trailing letter, a route without trips
ShapeRouteIds == {"", "r1", "1", "1x", "r2"}

ShapeRequest ==
    /\ queries < ShapesMaxQueries
    /\ \E routeId \in ShapeRouteIds, zip \in ShapeZips, gtfs \in ShapeDatasets :
          getRouteShape(routeId, zip, gtfs)

ShapesClockAdvance == \E t \in RoutesNows : Tick(t)

NextShapes == ShapeRequest \/ ShapesClockAdvance

SpecShapes == Init /\ [][NextShapes]_vars

-----------------------------------------------------------------------------
(* The overlap specification: requests of either endpoint in two slots,     *)
(* each advancing from await to await in any order                          *)

OverlapMaxRequests == 2

\* vehicle a of route r1 at two instants 30 s and 100 m apart, without speed
OverlapEntities ==
    { Report("e1", "r1", Some("a"), 0, None, Long(1000), None),
      Report("e1", "r1", Some("a"), 100, None, Long(1030), None) }

\* the feeds of one entity
OverlapUpstreams ==
    Replies({g \in FeedsOf(OverlapEntities, 1) : Len(g) > 0})

OverlapBegin ==
    /\ begun < OverlapMaxRequests
    /\ \E r \in Requests, endpoint \in {"leaderboard", "vehicles"} :
          BeginRequest(r, endpoint)

OverlapFetchSettles ==
    \E r \in Requests, upstream \in OverlapUpstreams : FetchSettles(r, upstream)

OverlapBodyArrives == \E r \in Requests : BodyArrives(r)

OverlapStaticFetchSettles ==
    \E r \in Requests, ok \in BOOLEAN : StaticFetchSettles(r, ok)

OverlapStaticBodyArrives ==
    \E r \in Requests, gtfs \in {None, Some(StaticRoutes)} : StaticBodyArrives(r, gtfs)

OverlapResumes == \E r \in Requests : Resumes(r)

NextOverlap ==
    \/ OverlapBegin
    \/ OverlapFetchSettles
    \/ OverlapBodyArrives
    \/ OverlapStaticFetchSettles
    \/ OverlapStaticBodyArrives
    \/ OverlapResumes

SpecOverlap == Init /\ [][NextOverlap]_vars

-----------------------------------------------------------------------------
(* The page specification: replies of /api/miway reach the page at any     *)
(* time while its timeout runs                                              *)

Row(routeNumber, speed) ==
    [routeNumber |-> routeNumber, routeName |-> "Route", speed |-> speed]

\* speeds of a row, in tenths of km/h
PageSpeeds == {100, 200, 300}

\* the replies: a failure, or the rows of routes 1 and 2 by descending
\* speed, or two rows under the same route number
PageReplies ==
    {None, Some(<<>>)}
    \cup {Some(<<Row(n, v)>>) : n \in {"1", "2"}, v \in PageSpeeds}
    \cup {Some(<<Row(q[1], q[2]), Row(q[3], q[4])>>) :
              q \in {t \in {"1", "2"} \X PageSpeeds \X {"1", "2"} \X PageSpeeds :
                         t[4] <= t[2]}}

\* the step of the page clock
PageStepMs == EMPTY_POLL_MS

PageFetchSettles == \E reply \in PageReplies : fetchLeaderboard(reply)

PageTimeout == processNextItem

PageClockAdvance == PageElapse(PageStepMs)

NextPage == PageFetchSettles \/ PageTimeout \/ PageClockAdvance

SpecPage == Init /\ [][NextPage]_vars

-----------------------------------------------------------------------------
(* Calls of the pure functions on inputs drawn from bounded sets *)

EngineIdle == UNCHANGED engineVars

\* absent, 0, just under 1 km/h, 1 km/h, 18 km/h, 75 km/h, just over
\* 75 km/h and 80 km/h, in m/s
PickReported ==
    {None, Some(<<0, 1>>), Some(<<49, 180>>), Some(<<5, 18>>), Some(Mps5),
     Some(<<125, 6>>), Some(<<1251, 60>>), Some(Mps80Kmh)}

PickWindows == {-5, 0, 5, 7, 8, 30, 120, 121}

PickDistances == {0, 1, 50, 100, 600, 650}

\* pickSpeedMps on the result of computeSpeedFromCache for a vehicle with
\* one stored snapshot and a new report dt seconds and dist metres away
PickFromHistory ==
    \E reportedMps \in PickReported, dt \in PickWindows, dist \in PickDistances :
        LET start == 1000
            cache == [k \in {"r1:a"} |-> <<[lat |-> 0, lon |-> 0, timestampSec |-> start]>>]
            computed == computeSpeedFromCache(cache, "r1:a", dist, 0, start + dt)
        IN  /\ call' = [fn |-> "pickSpeedMps", reportedMps |-> reportedMps,
                        window |-> Some(dt), distance |-> Some(dist),
                        computed |-> computed,
                        result |-> pickSpeedMps(reportedMps, computed)]
            /\ EngineIdle

\* pickSpeedMps on any computed result, reliable or not
PickFromAny ==
    \E reportedMps \in PickReported, speedMps \in PickReported, reliable \in BOOLEAN :
        LET computed == [speedMps |-> speedMps, reliable |-> reliable, bearingDeg |-> None]
        IN  /\ call' = [fn |-> "pickSpeedMps", reportedMps |-> reportedMps,
                        window |-> None, distance |-> None,
                        computed |-> computed,
                        result |-> pickSpeedMps(reportedMps, computed)]
            /\ EngineIdle

NextPick == PickFromHistory \/ PickFromAny

SpecPick == Init /\ [][NextPick]_vars

VariantRouteIds == {"r1", "r2", "17", "101"}

VariantShortNames == {"1", "2", "17", "101A"}

VariantDirections == {None, Some(0), Some(1), Some(2), Some(-1)}

VariantBearings == {None, Some(0), Some(90), Some(180)}

ClassifyVariant ==
    \E routeId \in VariantRouteIds, routeShortName \in VariantShortNames,
       directionId \in VariantDirections, bearing \in VariantBearings :
        /\ call' = [fn |-> "formatRouteVariant", routeId |-> routeId,
                    routeShortName |-> routeShortName, directionId |-> directionId,
                    bearing |-> bearing,
                    result |-> formatRouteVariant(routeId, routeShortName, directionId, bearing)]
        /\ EngineIdle

NextVariant == ClassifyVariant

SpecVariant == Init /\ [][NextVariant]_vars

MaxSamples == 7

\* buckets the aggregation starts from, in km/h
AggSeeds ==
    { <<>>,
      <<<<10, 1>>, <<12, 1>>, <<13, 1>>, <<14, 1>>, <<15, 1>>, <<16, 1>>>>,
      <<<<20, 1>>, <<30, 1>>>>,
      <<<<3, 1>>, <<70, 1>>, <<20, 1>>, <<21, 1>>, <<22, 1>>, <<23, 1>>, <<24, 1>>,
        <<25, 1>>, <<26, 1>>, <<27, 1>>, <<28, 1>>, <<29, 1>>, <<5, 1>>, <<60, 1>>>> }

AggValues == {<<10, 1>>, <<90, 1>>, <<100, 1>>, <<25, 2>>}

AggBucket(speeds) ==
    [variantKey |-> "r1:U", routeNumber |-> "1", routeName |-> "Dundas", speeds |-> speeds]

\* a bucket of samples is chosen and aggregated
AggStart ==
    /\ call.fn = "none"
    /\ \E speeds \in AggSeeds :
          call' = [fn |-> "aggregate", speeds |-> speeds,
                   result |-> Leaderboard(<<AggBucket(speeds)>>)]
    /\ EngineIdle

\* one more sample is pushed to the bucket, which is aggregated again
AggPush ==
    /\ call.fn = "aggregate"
    /\ Len(call.speeds) < MaxSamples
    /\ \E v \in AggValues :
          LET speeds == Append(call.speeds, v)
          IN  call' = [fn |-> "aggregate", speeds |-> speeds,
                       result |-> Leaderboard(<<AggBucket(speeds)>>)]
    /\ EngineIdle

NextAgg == AggStart \/ AggPush

SpecAgg == Init /\ [][NextAgg]_vars

WindowMaxSegments == 3

\* the segments a window is made of, as <<dt in seconds, metres northwards>>:
\* out of order, duplicate, short, ordinary, the longest jump accepted, a
\* jump beyond it, the longest interval accepted, an interval beyond it;
\* then southwards: an ordinary segment and one after too long an interval;
\* and a vehicle that stood still
WindowSegments ==
    {<<-5, 50>>, <<0, 50>>, <<4, 50>>, <<30, 50>>, <<30, 600>>, <<30, 650>>,
     <<120, 600>>, <<121, 50>>, <<30, -70>>, <<121, -70>>, <<30, 0>>}

\* no reported speed, or 18 km/h
WindowReported == {None, Some(Mps5)}

\* computeSpeedFromCache and pickSpeedMps for a vehicle whose history is all
\* of points but the last, which is the new report
WindowCall(points, reportedMps) ==
    LET n == Len(points)
        cache == [k \in {"r1:a"} |-> SubSeq(points, 1, n - 1)]
        computed == computeSpeedFromCache(cache, "r1:a", points[n].lat,
                                          points[n].lon, points[n].timestampSec)
    IN  [fn |-> "computeSpeedFromCache", points |-> points,
         reportedMps |-> reportedMps,
         totals |-> SumSegments(points, 2, <<0, 0, 0, 0, 0>>),
         computed |-> computed,
         result |-> pickSpeedMps(reportedMps, computed)]

\* the point a segment away from a point
PointAfter(a, segment) ==
    [lat |-> a.lat + segment[2], lon |-> a.lon,
     timestampSec |-> a.timestampSec + segment[1]]

\* a vehicle with one stored snapshot reports a new point
WindowStart ==
    /\ \E segment \in WindowSegments, reportedMps \in WindowReported :
          LET first == [lat |-> 0, lon |-> 0, timestampSec |-> 1000]
          IN  call' = WindowCall(<<first, PointAfter(first, segment)>>, reportedMps)
    /\ EngineIdle

\* the report joins the history and the vehicle reports one more point
WindowExtend ==
    /\ call.fn = "computeSpeedFromCache"
    /\ Len(call.points) <= WindowMaxSegments
    /\ \E segment \in WindowSegments :
          LET n == Len(call.points)
              hist == pushSnapshot(SubSeq(call.points, 1, n - 1), call.points[n])
          IN  call' = WindowCall(Append(hist, PointAfter(call.points[n], segment)),
                                 call.reportedMps)
    /\ EngineIdle

NextWindow == WindowStart \/ WindowExtend

SpecWindow == Init /\ [][NextWindow]_vars

-----------------------------------------------------------------------------
(* The specification of reports without timestamp: one vehicle that sends   *)
(* stamped reports and then reports without timestamp, polled by either     *)
(* endpoint                                                                 *)

UnstampedMaxCycles == 3

\* a report of vehicle a of route r1 without timestamp, 200 m north
Unstamped(speed, bearing) ==
    [Report("e1", "r1", Some("a"), 200, speed, None, None) EXCEPT
        !.position = Some([Val(@) EXCEPT !.bearing = bearing])]

\* the vehicle at 1000 and, 100 m on, at 1030, reporting no speed; then
\* without timestamp: no speed, 0, 18 km/h, 80 km/h, and 18 km/h with a
\* reported bearing of 90 degrees
UnstampedEntities ==
    { Report("e1", "r1", Some("a"), 0, None, Long(1000), None),
      Report("e1", "r1", Some("a"), 100, None, Long(1030), None),
      Unstamped(None, None),
      Unstamped(Some(<<0, 1>>), None),
      Unstamped(Some(Mps5), None),
      Unstamped(Some(Mps80Kmh), None),
      Unstamped(Some(Mps5), Some(90)) }

UnstampedUpstreams == Replies(FeedsOf(UnstampedEntities, 1))

\* 301 s after the later stamped report
UnstampedNows == {1331}

UnstampedLeaderboardRequest ==
    /\ cycles < UnstampedMaxCycles
    /\ \E upstream \in UnstampedUpstreams, gtfs \in {Some(StaticRoutes)} :
          getMiwayLeaderboard(upstream, gtfs)

UnstampedVehiclesRequest ==
    /\ cycles < UnstampedMaxCycles
    /\ \E upstream \in UnstampedUpstreams, gtfs \in {Some(StaticRoutes)} :
          getVehiclePositions(upstream, gtfs)

UnstampedClockAdvance == \E t \in UnstampedNows : Tick(t)

NextUnstamped ==
    UnstampedLeaderboardRequest \/ UnstampedVehiclesRequest \/ UnstampedClockAdvance

SpecUnstamped == Init /\ [][NextUnstamped]_vars

-----------------------------------------------------------------------------
(* Vocabulary of the properties *)

\* the last request was a cycle of that endpoint that answered
Answered(endpoint) == response.endpoint = endpoint /\ response.status = 200

Cycled == response.status = 200

\* 3.6 * (n/d m/s) lies within [lo, hi] km/h
MpsWithinKmh(mps, lo, hi) == 5 * lo * mps[2] <= 18 * mps[1] /\ 18 * mps[1] <= 5 * hi * mps[2]

\* n/d km/h lies within [lo, hi] km/h
KmhWithin(kmh, lo, hi) == lo * kmh[2] <= kmh[1] /\ kmh[1] <= hi * kmh[2]

IncludedEntities == {i \in 1..Len(trace) : trace[i].included}

RECURSIVE SampleCount(_)
SampleCount(buckets) ==
    IF buckets = <<>> THEN 0 ELSE Len(Head(buckets).speeds) + SampleCount(Tail(buckets))

RECURSIVE VehicleCountSum(_)
VehicleCountSum(rows) ==
    IF rows = <<>> THEN 0 ELSE Head(rows).vehicleCount + VehicleCountSum(Tail(rows))

\* the key of the history of the vehicle of a report: its route, then its
\* vehicle id or, failing that, the id of its entity
VehicleKey(entity) ==
    entity.routeId \o ":" \o
        (IF entity.vehicleId # None THEN Val(entity.vehicleId) ELSE entity.id)

SnapshotOf(entity) ==
    [lat |-> Val(Val(entity.position).latitude),
     lon |-> Val(Val(entity.position).longitude),
     timestampSec |-> Val(Val(entity.timestamp).v)]

\* the variant a report belongs to, by its route and feed direction only
ExpectedVariantKey(entity) ==
    entity.routeId \o ":" \o
        (CASE entity.directionId = Some(0) -> "N"
           [] entity.directionId = Some(1) -> "S"
           [] OTHER -> "U")

-----------------------------------------------------------------------------
(* Properties of a cycle, checked under Spec *)

\* C1: in every cycle a vehicle is included in the output (a leaderboard
\* sample or a snapshot vehicle) only with a resolved speed within
\* [1, 75] km/h, every emitted sample or vehicle speed lies in that range,
\* and the outputs hold exactly one sample or vehicle per included report, so
\* that a report without a valid speed appears in neither.
C1_OnlyValidSpeedsEmitted ==
    Cycled =>
        /\ \A i \in 1..Len(trace) :
              trace[i].included <=>
                  (trace[i].resolved # None /\ MpsWithinKmh(Val(trace[i].resolved), 1, 75))
        /\ Answered("leaderboard") =>
              /\ SampleCount(routeSpeeds) = Cardinality(IncludedEntities)
              /\ \A b \in 1..Len(routeSpeeds) : \A j \in 1..Len(routeSpeeds[b].speeds) :
                    KmhWithin(routeSpeeds[b].speeds[j], 1, 75)
              /\ \A r \in 1..Len(response.rows) :
                    response.rows[r].speed >= 10 /\ response.rows[r].speed <= 750
        /\ Answered("vehicles") =>
              /\ Len(response.vehicles) = Cardinality(IncludedEntities)
              /\ \A v \in 1..Len(response.vehicles) :
                    response.vehicles[v].speedKmh >= 10 /\ response.vehicles[v].speedKmh <= 750

\* a cycle that included a vehicle on a speed computed from its history and
\* excluded another vehicle that reported 80 km/h
C1_Witness ==
    /\ Cycled
    /\ \E i \in 1..Len(trace) :
          /\ trace[i].included
          /\ Val(feed[i].position).speed = None
          /\ trace[i].computed.reliable
    /\ \E j \in 1..Len(trace) :
          /\ trace[j].reached
          /\ ~trace[j].included
          /\ Val(feed[j].position).speed = Some(Mps80Kmh)

\* C6: every report that reaches the resolver with a timestamp is pushed to the
\* history of its vehicle in that cycle, resolved speed or not, and is the
\* newest snapshot of that history afterwards.
C6_TimestampedReportsRecorded ==
    Cycled =>
        \A i \in 1..Len(trace) :
            (trace[i].reached /\ normalizeTimestampSec(feed[i].timestamp) # None) =>
                /\ VehicleKey(feed[i]) \in DOMAIN vehicleCache
                /\ LET hist == vehicleCache[VehicleKey(feed[i])]
                   IN  Len(hist) > 0 /\ hist[Len(hist)] = SnapshotOf(feed[i])

\* C8: the vehicleCount of a row is the number of samples of its variant
\* before trimming: the rows are the buckets, a bucket holds one sample per
\* included report of its variant, and the counts of all rows add up to the
\* number of included reports.
C8_VehicleCountIsSampleCount ==
    Answered("leaderboard") =>
        /\ Len(response.rows) = Len(routeSpeeds)
        /\ \A b \in 1..Len(routeSpeeds) :
              /\ Len(routeSpeeds[b].speeds) =
                     Cardinality({i \in IncludedEntities :
                                     ExpectedVariantKey(feed[i]) = routeSpeeds[b].variantKey})
              /\ \E r \in 1..Len(response.rows) :
                    /\ response.rows[r].routeNumber = routeSpeeds[b].routeNumber
                    /\ response.rows[r].vehicleCount = Len(routeSpeeds[b].speeds)
        /\ \A i \in IncludedEntities :
              Cardinality({b \in 1..Len(routeSpeeds) :
                              routeSpeeds[b].variantKey = ExpectedVariantKey(feed[i])}) = 1
        /\ VehicleCountSum(response.rows) = Cardinality(IncludedEntities)

\* a leaderboard with a row of two vehicles, from a feed that also held a
\* report without usable speed
C8_Witness ==
    /\ Answered("leaderboard")
    /\ \E r \in 1..Len(response.rows) : response.rows[r].vehicleCount = 2
    /\ Cardinality(IncludedEntities) = 2

\* C9: the rows of the leaderboard are in descending order of speed.
C9_RowsDescendBySpeed ==
    Answered("leaderboard") =>
        \A r \in 1..(Len(response.rows) - 1) :
            response.rows[r].speed >= response.rows[r + 1].speed

\* a leaderboard of two rows whose slower variant was met first in the feed
C9_Witness ==
    /\ Answered("leaderboard")
    /\ Len(response.rows) = 2
    /\ response.rows[1].speed > response.rows[2].speed
    /\ response.rows[2].routeNumber = routeSpeeds[1].routeNumber

-----------------------------------------------------------------------------
(* Properties of speed selection, checked under SpecPick *)

\* the speed the selection rule asks for
ExpectedPick(reportedMps, computed) ==
    IF reportedMps # None /\ MpsWithinKmh(Val(reportedMps), 1, 75)
    THEN reportedMps
    ELSE IF computed.reliable /\ computed.speedMps # None
            /\ MpsWithinKmh(Val(computed.speedMps), 1, 75)
         THEN computed.speedMps
         ELSE None

\* C2: pickSpeedMps returns the reported speed when it is present and within
\* [1, 75] km/h, else the computed speed when the computed result is reliable
\* and within [1, 75] km/h, else no speed; a reported 80 km/h is never
\* returned, and a speed computed over a window of less than 8 s (5 s for one)
\* is never returned, however plausible.
C2_SpeedSelection ==
    call.fn = "pickSpeedMps" =>
        /\ call.result = ExpectedPick(call.reportedMps, call.computed)
        /\ call.reportedMps = Some(Mps80Kmh) => call.result # call.reportedMps
        /\ (call.window # None /\ Val(call.window) < 8) =>
              /\ ~call.computed.reliable
              /\ call.result \in {None, call.reportedMps}
              /\ call.result # None => MpsWithinKmh(Val(call.reportedMps), 1, 75)

\* a report without speed, 50 m and 5 s after the stored snapshot: the computed
\* 36 km/h is plausible and no speed is returned
C2_Witness ==
    /\ call.fn = "pickSpeedMps"
    /\ call.reportedMps = None
    /\ call.window = Some(5)
    /\ call.computed.speedMps = Some(<<10, 1>>)
    /\ call.result = None

-----------------------------------------------------------------------------
(* Properties of the classifier, checked under SpecVariant *)

\* C10: formatRouteVariant maps direction 0 to the key routeId:N shown as the
\* short name followed by N, direction 1 to routeId:S shown as the short name
\* followed by S, and an absent or any other direction to routeId:U shown as
\* the short name unchanged.
C10_VariantOfDirection ==
    call.fn = "formatRouteVariant" =>
        /\ call.directionId = Some(0) =>
              /\ call.result.variantKey = call.routeId \o ":N"
              /\ call.result.routeNumber = call.routeShortName \o "N"
        /\ call.directionId = Some(1) =>
              /\ call.result.variantKey = call.routeId \o ":S"
              /\ call.result.routeNumber = call.routeShortName \o "S"
        /\ call.directionId \notin {Some(0), Some(1)} =>
              /\ call.result.variantKey = call.routeId \o ":U"
              /\ call.result.routeNumber = call.routeShortName

\* a call with the direction value 2, neither 0 nor 1
C10_Witness ==
    /\ call.fn = "formatRouteVariant"
    /\ call.routeId = "17"
    /\ call.routeShortName = "101A"
    /\ call.directionId = Some(2)
    /\ call.result.variantKey = "17:U"
    /\ call.result.routeNumber = "101A"

-----------------------------------------------------------------------------
(* Properties of the aggregation, checked under SpecAgg *)

\* the index of a smallest (least = TRUE) or largest sample of a sequence
ExtremeIndex(speeds, least) ==
    CHOOSE i \in 1..Len(speeds) :
        \A j \in 1..Len(speeds) :
            IF least THEN RatLeq(speeds[i], speeds[j]) ELSE RatLeq(speeds[j], speeds[i])

RemoveAt(speeds, i) == SubSeq(speeds, 1, i - 1) \o SubSeq(speeds, i + 1, Len(speeds))

RECURSIVE DropExtremes(_, _)
\* the samples left after k times removing a smallest and a largest one
DropExtremes(speeds, k) ==
    IF k = 0 THEN speeds
    ELSE LET lessMin == RemoveAt(speeds, ExtremeIndex(speeds, TRUE))
         IN  DropExtremes(RemoveAt(lessMin, ExtremeIndex(lessMin, FALSE)), k - 1)

RECURSIVE RatTotal(_)
RatTotal(speeds) ==
    IF speeds = <<>> THEN <<0, 1>>
    ELSE LET rest == RatTotal(Tail(speeds))
             h == Head(speeds)
             n == (h[1] \div GCD(h[1], h[2])) * rest[2] + rest[1] * (h[2] \div GCD(h[1], h[2]))
             d == (h[2] \div GCD(h[1], h[2])) * rest[2]
         IN  <<n \div GCD(n, d), d \div GCD(n, d)>>

ExpectedTrimCount(n) ==
    IF n >= 6 THEN (IF (n * 15) \div 100 >= 1 THEN (n * 15) \div 100 ELSE 1) ELSE 0

\* tenths is a nearest multiple of 0.1 to the mean of the samples
NearestTenthOfMean(tenths, speeds) ==
    LET total == RatTotal(speeds)
        d == total[2] * Len(speeds)
        diff == 10 * total[1] - tenths * d
    IN  2 * (IF diff < 0 THEN -diff ELSE diff) <= d

\* C7: the speed of the row of a bucket of n >= 1 samples is the mean, rounded
\* to one decimal, of the samples left after dropping
\* max(1, floor(0.15 n)) smallest and as many largest ones when n >= 6, and
\* of all samples when n < 6; [10,12,13,14,15,16,90] gives 14.0 and
\* [20,30,100] gives 50.0.
C7_TrimmedMean ==
    (call.fn = "aggregate" /\ Len(call.speeds) >= 1) =>
        /\ Len(call.result) = 1
        /\ NearestTenthOfMean(call.result[1].speed,
              DropExtremes(call.speeds, ExpectedTrimCount(Len(call.speeds))))
        /\ call.speeds = <<<<10, 1>>, <<12, 1>>, <<13, 1>>, <<14, 1>>, <<15, 1>>, <<16, 1>>, <<90, 1>>>>
              => call.result[1].speed = 140
        /\ call.speeds = <<<<20, 1>>, <<30, 1>>, <<100, 1>>>> => call.result[1].speed = 500

\* the bucket [10,12,13,14,15,16,90] aggregated to 14.0
C7_Witness ==
    /\ call.fn = "aggregate"
    /\ call.speeds = <<<<10, 1>>, <<12, 1>>, <<13, 1>>, <<14, 1>>, <<15, 1>>, <<16, 1>>, <<90, 1>>>>
    /\ call.result[1].speed = 140

-----------------------------------------------------------------------------
(* Properties of the history store, checked under SpecHist and SpecSweep *)

\* the timestamps of a sequence of snapshots never decrease
NonDecreasing(hist) ==
    \A i \in 1..(Len(hist) - 1) : hist[i].timestampSec <= hist[i + 1].timestampSec

\* the last min(Len(log), n) elements of a log, oldest first
Latest(log, n) ==
    IF Len(log) <= n THEN log ELSE [i \in 1..n |-> log[Len(log) - n + i]]

\* C3: the stored history of every key is the last min(n, 6) of the n
\* snapshots appended for that key since it was last evicted, oldest first;
\* no history holds more than 6 snapshots, and 10 appended snapshots leave
\* the 6 most recent.
C3_HistoryIsLatestSix ==
    /\ DOMAIN vehicleCache = DOMAIN appended
    /\ \A k \in DOMAIN vehicleCache :
          /\ vehicleCache[k] = Latest(appended[k], 6)
          /\ Len(vehicleCache[k]) <= 6
          /\ Len(appended[k]) = 10 =>
                vehicleCache[k] = <<appended[k][5], appended[k][6], appended[k][7],
                                    appended[k][8], appended[k][9], appended[k][10]>>

\* a key with 10 snapshots appended since its last eviction, not all alike
C3_Witness ==
    \E k \in DOMAIN appended :
        /\ Len(appended[k]) = 10
        /\ Len(vehicleCache[k]) = 6
        /\ appended[k][4] # appended[k][5]
        /\ appended[k][9] # appended[k][10]

\* C4 as stated: in every reachable state the snapshots of every history are
\* non-decreasing in timestamp.
C4_HistoriesNonDecreasing ==
    \A k \in DOMAIN vehicleCache : NonDecreasing(vehicleCache[k])

\* C4: a history keeps the order of arrival: it is non-decreasing in
\* timestamp whenever the snapshots appended to it since its last eviction
\* arrived with non-decreasing timestamps (an out-of-order or duplicate report
\* is stored after the newer one), and no speed computed from a history is
\* negative or comes from a window that is not positive.
C4_ArrivalOrderKept ==
    /\ \A k \in DOMAIN vehicleCache :
          NonDecreasing(appended[k]) => NonDecreasing(vehicleCache[k])
    /\ \A i \in 1..Len(trace) :
          trace[i].computed.speedMps # None =>
              /\ Val(trace[i].computed.speedMps)[1] >= 0
              /\ Val(trace[i].computed.speedMps)[2] > 0

\* a history of two instants that arrived in order, from which a speed was
\* computed
C4_Witness ==
    /\ \E k \in DOMAIN vehicleCache :
          /\ Len(vehicleCache[k]) >= 2
          /\ NonDecreasing(appended[k])
          /\ vehicleCache[k][1].timestampSec < vehicleCache[k][Len(vehicleCache[k])].timestampSec
    /\ \E i \in 1..Len(trace) : trace[i].computed.speedMps # None

\* the snapshots a cycle with trace tr pushed for key k, in order
RECURSIVE PushedFor(_, _)
PushedFor(tr, k) ==
    IF tr = <<>> THEN <<>>
    ELSE (IF Head(tr).cacheKey = Some(k) /\ Head(tr).pushed # None
          THEN <<Val(Head(tr).pushed)>> ELSE <<>>) \o PushedFor(Tail(tr), k)

\* the step is a cycle of an endpoint that got its feed
CycleStep == cycles' = cycles + 1 /\ response'.status = 200

\* C5: the sweep of a cycle removes a key if and only if its newest snapshot
\* is more than 300 s older than now: the removed keys are exactly those, a
\* removed key holds afterwards at most what this cycle pushed, and a kept
\* history is unchanged but for what this cycle pushed.
C5_SweepRemovesOlderThanTtl ==
    [][CycleStep =>
         LET stale == {k \in DOMAIN vehicleCache :
                          now - vehicleCache[k][Len(vehicleCache[k])].timestampSec > 300}
         IN  /\ swept' = stale
             /\ \A k \in stale :
                   IF PushedFor(trace', k) = <<>> THEN k \notin DOMAIN vehicleCache'
                   ELSE vehicleCache'[k] = Latest(PushedFor(trace', k), 6)
             /\ \A k \in DOMAIN vehicleCache \ stale :
                   /\ k \in DOMAIN vehicleCache'
                   /\ vehicleCache'[k] = Latest(vehicleCache[k] \o PushedFor(trace', k), 6)]_vars

\* after a cycle with an empty feed at 1301, the history last fed at 1000 is
\* gone and the one last fed at 1010 is kept
C5_Witness ==
    /\ Cycled
    /\ now = 1301
    /\ feed = <<>>
    /\ swept = {"r1:a"}
    /\ "r1:a" \notin DOMAIN vehicleCache
    /\ "r1:b" \in DOMAIN vehicleCache

-----------------------------------------------------------------------------
(* Properties of the classification within a cycle, checked under           *)
(* SpecBearing                                                              *)

ExpectedSuffix(entity) ==
    CASE entity.directionId = Some(0) -> "N"
      [] entity.directionId = Some(1) -> "S"
      [] OTHER -> ""

\* the route number a report is shown with, by its route, the short name of
\* the route and its feed direction only
ExpectedRouteNumber(entity) ==
    (IF entity.routeId \in DOMAIN routeMapCache
     THEN routeMapCache[entity.routeId].shortName ELSE entity.routeId)
        \o ExpectedSuffix(entity)

RECURSIVE IncludedFrom(_)
\* the reports of the feed included by the cycle, from the i-th on, in order
IncludedFrom(i) ==
    IF i > Len(feed) THEN <<>>
    ELSE (IF trace[i].included THEN <<feed[i]>> ELSE <<>>) \o IncludedFrom(i + 1)

\* C11: the variant key and the route number a vehicle is emitted with are a
\* function of its route, the short name of the route and its feed direction
\* alone, whatever its reported bearing, computed bearing or history: in the
\* leaderboard the buckets and rows are those of the expected variants of the
\* included reports, in the live snapshot every vehicle carries the expected
\* route number, and a report without direction is in variant U under the
\* unmodified short name.
C11_VariantIgnoresBearing ==
    /\ Answered("leaderboard") =>
          /\ {routeSpeeds[b].variantKey : b \in 1..Len(routeSpeeds)} =
                 {ExpectedVariantKey(feed[i]) : i \in IncludedEntities}
          /\ {response.rows[r].routeNumber : r \in 1..Len(response.rows)} =
                 {ExpectedRouteNumber(feed[i]) : i \in IncludedEntities}
          /\ \A i \in IncludedEntities :
                feed[i].directionId = None =>
                    \E b \in 1..Len(routeSpeeds) :
                        /\ routeSpeeds[b].variantKey = feed[i].routeId \o ":U"
                        /\ routeSpeeds[b].routeNumber = "1"
    /\ Answered("vehicles") =>
          /\ Len(response.vehicles) = Len(IncludedFrom(1))
          /\ \A j \in 1..Len(response.vehicles) :
                /\ response.vehicles[j].routeId = IncludedFrom(1)[j].routeId
                /\ response.vehicles[j].routeNumber = ExpectedRouteNumber(IncludedFrom(1)[j])
                /\ IncludedFrom(1)[j].directionId = None =>
                      response.vehicles[j].routeNumber = "1"

\* a live snapshot with a vehicle without feed direction whose history gives a
\* bearing due north, shown under the unmodified short name
C11_Witness ==
    /\ Answered("vehicles")
    /\ \E j \in 1..Len(response.vehicles) :
          /\ IncludedFrom(1)[j].directionId = None
          /\ Val(IncludedFrom(1)[j].position).bearing = None
          /\ response.vehicles[j].bearing = Some(0)
          /\ response.vehicles[j].routeNumber = "1"

\* the included reports of the feed that belong to the variant of that key
VariantMembers(variantKey) ==
    {i \in IncludedEntities : ExpectedVariantKey(feed[i]) = variantKey}

RECURSIVE MemberSpeeds(_, _)
\* the resolved speeds in km/h of the included reports of a variant, from the
\* i-th report of the feed on
MemberSpeeds(variantKey, i) ==
    IF i > Len(feed) THEN <<>>
    ELSE (IF i \in VariantMembers(variantKey)
          THEN <<<<18 * Val(trace[i].resolved)[1], 5 * Val(trace[i].resolved)[2]>>>>
          ELSE <<>>) \o MemberSpeeds(variantKey, i + 1)

\* the row has the count and the mean (of fewer than 6 samples) of exactly the
\* included reports of that variant
RowOfVariant(row, variantKey) ==
    /\ row.vehicleCount = Cardinality(VariantMembers(variantKey))
    /\ row.vehicleCount < 6
    /\ NearestTenthOfMean(row.speed, MemberSpeeds(variantKey, 1))

\* C12: two vehicles of one route declared with directions 0 and 1 that both
\* resolve a valid speed in a cycle give two distinct rows, shortName N and
\* shortName S, each with the count and the mean of the vehicles of its own
\* direction only.
C12_DirectionsNotCombined ==
    Answered("leaderboard") =>
        \A i, j \in IncludedEntities :
            (feed[i].routeId = feed[j].routeId
                /\ feed[i].directionId = Some(0) /\ feed[j].directionId = Some(1)) =>
                \E n, m \in 1..Len(response.rows) :
                    /\ n # m
                    /\ response.rows[n].routeNumber = ExpectedRouteNumber(feed[i])
                    /\ response.rows[m].routeNumber = ExpectedRouteNumber(feed[j])
                    /\ response.rows[n].routeNumber # response.rows[m].routeNumber
                    /\ RowOfVariant(response.rows[n], feed[i].routeId \o ":N")
                    /\ RowOfVariant(response.rows[m], feed[j].routeId \o ":S")

\* a leaderboard of route r1 with the row 1N at 36.0 km/h and the row 1S at
\* 18.0 km/h, one vehicle each
C12_Witness ==
    /\ Answered("leaderboard")
    /\ Len(response.rows) = 2
    /\ response.rows[1].routeNumber = "1N" /\ response.rows[1].speed = 360
    /\ response.rows[2].routeNumber = "1S" /\ response.rows[2].speed = 180
    /\ response.rows[1].vehicleCount = 1 /\ response.rows[2].vehicleCount = 1

-----------------------------------------------------------------------------
(* Properties of the live snapshot, checked under SpecStats *)

RECURSIVE IncludedKmhFrom(_)
\* the resolved speeds in km/h of the included reports, from the i-th report
\* of the feed on, in order
IncludedKmhFrom(i) ==
    IF i > Len(feed) THEN <<>>
    ELSE (IF trace[i].included
          THEN <<<<18 * Val(trace[i].resolved)[1], 5 * Val(trace[i].resolved)[2]>>>>
          ELSE <<>>) \o IncludedKmhFrom(i + 1)

VehiclesWithStatus(status) ==
    {j \in 1..Len(response.vehicles) : response.vehicles[j].status = status}

\* C13: a vehicle of the live snapshot is moving if its resolved speed is at
\* least 2 km/h and stopped otherwise: at exactly 2 km/h it is moving, at
\* 1.999 km/h it is stopped.
C13_StatusThreshold ==
    Answered("vehicles") =>
        /\ Len(response.vehicles) = Len(IncludedKmhFrom(1))
        /\ \A j \in 1..Len(response.vehicles) :
              LET kmh == IncludedKmhFrom(1)[j]
              IN  /\ response.vehicles[j].status =
                         (IF kmh[1] >= 2 * kmh[2] THEN "moving" ELSE "stopped")
                  /\ 1000 * kmh[1] = 2000 * kmh[2] => response.vehicles[j].status = "moving"
                  /\ 1000 * kmh[1] = 1999 * kmh[2] => response.vehicles[j].status = "stopped"

\* a snapshot with the vehicle at exactly 2 km/h moving and the vehicle at
\* 1.999 km/h stopped
C13_Witness ==
    /\ Answered("vehicles")
    /\ \E j, k \in 1..Len(response.vehicles) :
          /\ response.vehicles[j].id = "a" /\ response.vehicles[j].status = "moving"
          /\ IncludedKmhFrom(1)[j] = <<90, 45>>
          /\ response.vehicles[k].id = "b" /\ response.vehicles[k].status = "stopped"
          /\ IncludedKmhFrom(1)[k] = <<18 * 1999, 5 * 3600>>

\* C14: in every live snapshot total is the number of listed vehicles, moving
\* and stopped are the numbers of listed vehicles of that status, and
\* moving + stopped = total.
C14_StatsCountVehicles ==
    Answered("vehicles") =>
        /\ response.stats.total = Len(response.vehicles)
        /\ response.stats.moving = Cardinality(VehiclesWithStatus("moving"))
        /\ response.stats.stopped = Cardinality(VehiclesWithStatus("stopped"))
        /\ response.stats.moving + response.stats.stopped = response.stats.total

\* a snapshot of seven reports: one excluded, four moving, two stopped
C14_Witness ==
    /\ Answered("vehicles")
    /\ Len(feed) = 7
    /\ response.stats.total = 6
    /\ response.stats.moving = 4
    /\ response.stats.stopped = 2

\* C15: averageSpeed is the mean of the resolved speeds of all included
\* vehicles, none trimmed however many there are, rounded to one decimal,
\* and 0 when no vehicle is included.
C15_AverageIsPlainMean ==
    Answered("vehicles") =>
        IF Len(IncludedKmhFrom(1)) = 0 THEN response.stats.averageSpeed = 0
        ELSE NearestTenthOfMean(response.stats.averageSpeed, IncludedKmhFrom(1))

\* six included vehicles at 2, 1.999, 10, 12.5, 75 and 1 km/h: their mean is
\* 17.1 km/h, where the mean without the slowest and the fastest would be 6.6
C15_Witness ==
    /\ Answered("vehicles")
    /\ Len(response.vehicles) = 6
    /\ response.stats.averageSpeed = 171
    /\ ~NearestTenthOfMean(response.stats.averageSpeed,
                            DropExtremes(IncludedKmhFrom(1), 1))

-----------------------------------------------------------------------------
(* Properties across cycles and of failed cycles, checked under Spec and    *)
(* SpecSweep                                                                *)

\* C16: the leaderboard of a cycle is made of that cycle's samples only: it
\* has one row per variant with an included report in this cycle and no other
\* row, and the count and the mean of a row are those of this cycle's
\* included reports of the variant, whatever earlier cycles sampled or
\* answered.
C16_LeaderboardOfThisCycleOnly ==
    Answered("leaderboard") =>
        /\ Len(response.rows) =
               Cardinality({ExpectedVariantKey(feed[i]) : i \in IncludedEntities})
        /\ \A r \in 1..Len(response.rows) :
              \E i \in IncludedEntities :
                  /\ response.rows[r].routeNumber = ExpectedRouteNumber(feed[i])
                  /\ RowOfVariant(response.rows[r], ExpectedVariantKey(feed[i]))

\* a leaderboard that follows one with a row of a variant now without valid
\* sample: the variant has no row any more, while another variant has one
C16_Witness ==
    /\ Answered("leaderboard")
    /\ response.rows # <<>>
    /\ \E p \in 1..Len(lastRows) :
          /\ lastRows[p].vehicleCount >= 1
          /\ \A r \in 1..Len(response.rows) :
                response.rows[r].routeNumber # lastRows[p].routeNumber

\* C18: a request whose fetch of the vehicle feed is rejected or answered
\* with a status that is not ok ends with status 500 and an error body and
\* carries no rows and no vehicles; only a request whose fetch succeeded is
\* answered as a success.
C18_FetchFailureIsExplicit ==
    /\ fetched \in {"unreachable", "not ok"} =>
          /\ response.status = 500
          /\ response.error # None
          /\ response.rows = <<>>
          /\ response.vehicles = <<>>
    /\ response.status = 200 => fetched = "ok" /\ response.error = None

\* a leaderboard request answered 500 on a response that was not ok, after a
\* request that had answered rows
C18_Witness ==
    /\ fetched = "not ok"
    /\ response.endpoint = "leaderboard"
    /\ response.status = 500
    /\ lastRows # <<>>

\* the step is a request whose fetch of the vehicle feed failed
FailedStep == cycles' = cycles + 1 /\ fetched' \in {"unreachable", "not ok"}

\* C19: a cycle that fails on the fetch of the vehicle feed leaves the history
\* store and the route-metadata cache as they were: nothing is evicted,
\* appended or refreshed.
C19_FailedCycleTouchesNoCache ==
    [][FailedStep =>
         /\ vehicleCache' = vehicleCache
         /\ routeMapCache' = routeMapCache
         /\ routeMapFetchedAt' = routeMapFetchedAt]_vars

\* a failed request at 1301 or later that found the history last fed at 1000,
\* which a sweep would have deleted, and left it in the store
C19_Witness ==
    /\ response.status = 500
    /\ now >= 1301
    /\ "r1:a" \in DOMAIN vehicleCache
    /\ now - vehicleCache["r1:a"][Len(vehicleCache["r1:a"])].timestampSec > 300

-----------------------------------------------------------------------------
(* Properties of the two paths, checked under SpecPaths *)

\* what the loop of each endpoint does with a feed from the present store
LeaderboardPathOn(entities) ==
    LeaderboardLoop([cache |-> evictStale(vehicleCache, now), buckets |-> <<>>,
                     trace |-> <<>>], entities, 1, routeMapCache)

VehiclesPathOn(entities) ==
    VehicleLoop([cache |-> evictStale(vehicleCache, now), vehicles |-> <<>>,
                 totalSpeed |-> <<0, 1>>, moving |-> 0, stopped |-> 0, trace |-> <<>>],
                entities, 1, routeMapCache)

\* C17: from any state of the shared history store and for any feed, the
\* leaderboard path and the live-snapshot path include the same reports with
\* the same resolved speeds, whichever of them gets the feed first: the
\* leaderboard has as many samples as the snapshot has vehicles.
C17_PathsAgree ==
    \A entities \in PathsFeeds :
        LET board == LeaderboardPathOn(entities)
            snapshot == VehiclesPathOn(entities)
        IN  /\ SampleCount(board.buckets) = Len(snapshot.vehicles)
            /\ \A i \in 1..Len(entities) :
                  /\ board.trace[i].included = snapshot.trace[i].included
                  /\ board.trace[i].included =>
                        board.trace[i].resolved = snapshot.trace[i].resolved

-----------------------------------------------------------------------------
(* Properties of malformed entities, checked under SpecMalformed *)

\* the entity has a vehicle record, a route id, a latitude and a longitude
WellFormed(entity) ==
    /\ entity.vehicle
    /\ entity.routeId # ""
    /\ entity.position # None
    /\ Val(entity.position).latitude # None
    /\ Val(entity.position).longitude # None

\* the step is a request that fetched its feed
FetchedStep == cycles' = cycles + 1 /\ fetched' = "ok"

\* C20: an entity without vehicle record, route id, latitude or longitude
\* never reaches the resolver: the cycle succeeds, the entity is neither
\* pushed to a history nor included, and the store, the rows, the vehicles and
\* the stats after the cycle are those of the same cycle on the feed without
\* its malformed entities.
C20_MalformedEntitiesDropped ==
    [][FetchedStep =>
         LET clean == SelectSeq(feed', WellFormed)
             start == evictStale(vehicleCache, now)
             board == LeaderboardLoop([cache |-> start, buckets |-> <<>>, trace |-> <<>>],
                                      clean, 1, routeMapCache')
             snapshot == VehicleLoop([cache |-> start, vehicles |-> <<>>,
                                      totalSpeed |-> <<0, 1>>, moving |-> 0,
                                      stopped |-> 0, trace |-> <<>>],
                                     clean, 1, routeMapCache')
         IN  /\ response'.status = 200
             /\ \A i \in 1..Len(feed') :
                   ~WellFormed(feed'[i]) =>
                       /\ ~trace'[i].reached
                       /\ trace'[i].pushed = None
                       /\ ~trace'[i].included
             /\ response'.endpoint = "leaderboard" =>
                   /\ vehicleCache' = board.cache
                   /\ response'.rows = Leaderboard(board.buckets)
             /\ response'.endpoint = "vehicles" =>
                   /\ vehicleCache' = snapshot.cache
                   /\ response'.vehicles = snapshot.vehicles
                   /\ response'.stats.total = Len(snapshot.vehicles)
                   /\ response'.stats.moving = snapshot.moving
                   /\ response'.stats.stopped = snapshot.stopped]_vars

\* a successful cycle on a feed of three entities whose second is malformed
\* and whose first and third are included, the first on a speed computed from
\* its history
C20_Witness ==
    /\ Cycled
    /\ Len(feed) = 3
    /\ ~WellFormed(feed[2])
    /\ feed[2].vehicle
    /\ trace[1].included /\ trace[1].computed.reliable
    /\ trace[3].included
    /\ Len(vehicleCache["r1:a"]) = 2

-----------------------------------------------------------------------------
(* Properties of the route-metadata cache, checked under SpecRoutes *)

\* the route name a report is shown with
ExpectedRouteName(entity) ==
    IF entity.routeId \in DOMAIN routeMapCache
    THEN routeMapCache[entity.routeId].longName ELSE "Route " \o entity.routeId

\* the included report is shown under this route number and route name
ShownAs(i, routeNumber, routeName) ==
    IF response.endpoint = "leaderboard"
    THEN \E r \in 1..Len(response.rows) :
            /\ response.rows[r].routeNumber = routeNumber
            /\ response.rows[r].routeName = routeName
    ELSE \E j \in 1..Len(response.vehicles) :
            /\ Len(IncludedFrom(i)) = Len(response.vehicles) - j + 1
            /\ response.vehicles[j].routeNumber = routeNumber
            /\ response.vehicles[j].routeName = routeName

\* every included report is shown under the names the cache gives its route,
\* or under its route id when the cache does not hold the route
NamesFromRouteMap ==
    \A i \in IncludedEntities :
        ShownAs(i, ExpectedRouteNumber(feed[i]), ExpectedRouteName(feed[i]))

\* C21 as stated: a vehicle of a route that the cache does not hold is shown
\* with its route id for route number and "Route {id}" for name.
C21_UnmappedShownByRouteId ==
    Cycled =>
        \A i \in IncludedEntities :
            feed[i].routeId \notin DOMAIN routeMapCache =>
                ShownAs(i, feed[i].routeId, "Route " \o feed[i].routeId)

\* C21: a cycle whose refresh of the static dataset fails succeeds, leaves
\* the route-metadata cache and its load time as they were, and shows every
\* vehicle under the names of that cache; a vehicle of a route the cache does
\* not hold is shown under its route id, followed by the letter of its feed
\* direction if it has one, and the name "Route {id}".
C21_FailedRefreshKeepsRouteMap ==
    [][FetchedStep =>
         /\ response'.status = 200
         /\ refresh' = "failed" =>
               /\ routeMapCache' = routeMapCache
               /\ routeMapFetchedAt' = routeMapFetchedAt
         /\ NamesFromRouteMap']_vars

\* a leaderboard served when the cache of the first edition has reached its
\* TTL and the refresh fails: route r1 is shown under its cached names and
\* the northbound vehicle of route r2 under r2N and "Route r2"
C21_Witness ==
    /\ Answered("leaderboard")
    /\ refresh = "failed"
    /\ now = 44240
    /\ routeMapFetchedAt = 1040
    /\ DOMAIN routeMapCache = {"r1"}
    /\ \E i, j \in IncludedEntities :
          /\ feed[i].routeId = "r1" /\ ShownAs(i, "1", "Dundas")
          /\ feed[j].routeId = "r2" /\ ShownAs(j, "r2N", "Route r2")

-----------------------------------------------------------------------------
(* Properties of the route-shape cache, checked under SpecShapes *)

\* the shape of the first trip of the route in trips.txt, <<>> without one
FirstTripShape(trips, routeId) ==
    LET of == {i \in 1..Len(trips) : trips[i].route_id = routeId /\ trips[i].shape_id # ""}
    IN  IF of = {} THEN None
        ELSE Some(trips[CHOOSE i \in of : \A j \in of : i <= j].shape_id)

\* C22: a query answered after a successful refresh, by that refresh or from
\* the cache it left, gives a route that has trips in the refreshed dataset
\* the shape and the geometry of that dataset.
C22_ShapeFromRefreshedDataset ==
    (/\ shapeReply # None
     /\ Val(shapeReply).status = 200
     /\ shapeLoad.outcome \in {"loaded", "cached"}
     /\ shapeLoad.zip # None
     /\ Val(shapeLoad.zip).trips # None
     /\ Val(shapeLoad.zip).shapes # None) =>
        LET dataset == Val(shapeLoad.zip)
            assigned == FirstTripShape(Val(dataset.trips), Val(shapeReply).routeId)
        IN  assigned # None =>
                /\ Val(shapeReply).shapeId = assigned
                /\ Val(shapeReply).coordinates =
                       ShapeCoordinates(Val(dataset.shapes), Val(assigned))

-----------------------------------------------------------------------------
(* Properties of a reported speed of zero, checked under SpecPick *)

ZeroMps == Some(<<0, 1>>)

\* C23 as stated: a reported speed of 0 is kept as the reading and is never
\* replaced by the speed computed from history.
C23_ZeroNotReplaced ==
    (call.fn = "pickSpeedMps" /\ call.reportedMps = ZeroMps) =>
        call.result \in {None, ZeroMps}

\* C23: the resolver gives a report whose speed is 0 what it gives a report
\* without speed: the computed speed when the computed result is reliable and
\* within [1, 75] km/h, else no speed; it never returns the speed 0.
C23_ZeroResolvedAsAbsent ==
    (call.fn = "pickSpeedMps" /\ call.reportedMps \in {None, ZeroMps}) =>
        /\ call.result = ExpectedPick(None, call.computed)
        /\ call.result # ZeroMps

\* a report with speed 0, 30 s and 100 m after the stored snapshot, resolved
\* to the computed 12 km/h
C23_Witness ==
    /\ call.fn = "pickSpeedMps"
    /\ call.reportedMps = ZeroMps
    /\ call.window = Some(30)
    /\ call.distance = Some(100)
    /\ call.computed.reliable
    /\ call.result = Some(<<10, 3>>)

-----------------------------------------------------------------------------
(* Properties of requests in flight together, checked under SpecOverlap *)

\* the positions of the store accesses of a cycle in the log
StepsOf(serial) == {i \in 1..Len(storeLog) : storeLog[i].serial = serial}

\* C24: the store accesses of a cycle are consecutive in the order of all
\* store accesses: they begin with the one sweep of the cycle, which the
\* read-then-append pairs of its vehicles follow, and no access of another
\* cycle lies between two of them.
C24_StoreStepsNotInterleaved ==
    \A i \in 1..Len(storeLog) :
        LET mine == StepsOf(storeLog[i].serial)
            first == CHOOSE j \in mine : \A k \in mine : j <= k
        IN  /\ mine = first..(first + Cardinality(mine) - 1)
            /\ (storeLog[i].step = "sweep") = (i = first)
            /\ storeLog[i].step = "read" =>
                  /\ i + 1 \in mine
                  /\ storeLog[i + 1].step = "append"
                  /\ storeLog[i + 1].key = storeLog[i].key

\* two cycles were in flight together: the one begun second swept and
\* appended first, the one begun first swept and appended after it
C24_Witness ==
    \E i, j \in 1..Len(storeLog) :
        /\ i < j
        /\ storeLog[i].serial = 2 /\ storeLog[i].step = "append"
        /\ storeLog[j].serial = 1 /\ storeLog[j].step = "append"

-----------------------------------------------------------------------------
(* Properties of the leaderboard page, checked under SpecPage *)

\* the step is a run of processNextItem
ProcessStep == pageLast'.run # pageLast.run

\* the route numbers of a list, from top to bottom
RouteOrder(rows) == [i \in 1..Len(rows) |-> rows[i].routeNumber]

\* C25: a run of processNextItem takes one update from the front of the queue
\* and applies it; it runs no sooner than 1 second after the last update
\* applied if that update changed the order of the routes shown; it sets
\* its next run 1 second later when its update changes the order and without
\* delay when it does not; on an empty queue it leaves the list as it is and
\* sets its next run some time later.
C25_UpdatesPacedByOrderChange ==
    [][ProcessStep =>
         IF pageQueue # <<>>
         THEN /\ pageQueue' = Tail(pageQueue)
              /\ \E at \in 1..Len(pageData') : pageData'[at] = Head(pageQueue)
              /\ pageLast.orderChanged => pageSince >= 1000
              /\ pageTimer' = IF RouteOrder(pageData') # RouteOrder(pageData)
                              THEN 1000 ELSE 0
         ELSE /\ pageData' = pageData
              /\ pageQueue' = pageQueue
              /\ pageTimer' > 0]_vars

\* one second after an update that replaced the row of a route and changed
\* the order, the timeout is due and the next update is queued
C25_Witness ==
    /\ pageLast.kind = "applied"
    /\ pageLast.orderChanged
    /\ pageLast.replaced
    /\ Len(pageData) = 2
    /\ pageSince = 1000
    /\ pageTimer = 0
    /\ pageQueue # <<>>

\* C26: the list the page shows is sorted by descending speed and holds at
\* most one row for a route number.
C26_PageListSortedAndUnique ==
    /\ \A i \in 1..(Len(pageData) - 1) : pageData[i].speed >= pageData[i + 1].speed
    /\ \A i, j \in 1..Len(pageData) :
          pageData[i].routeNumber = pageData[j].routeNumber => i = j

\* a list of two routes right after an update that replaced the row of the
\* faster route by a slower reading and so moved it below the other
C26_Witness ==
    /\ pageLast.kind = "applied"
    /\ pageLast.replaced
    /\ pageLast.orderChanged
    /\ pageSince = 0
    /\ Len(pageData) = 2
    /\ pageData[1].speed > pageData[2].speed

-----------------------------------------------------------------------------
(* Properties of the computed speed, checked under SpecWindow *)

PairDt(points, i) == points[i].timestampSec - points[i - 1].timestampSec

PairDistance(points, i) ==
    haversineMeters(points[i - 1].lat, points[i - 1].lon, points[i].lat, points[i].lon)

\* the consecutive pairs with 0 < dt <= 120 s and at most 600 m between them
PlausiblePairs(points) ==
    {i \in 2..Len(points) :
        /\ 0 < PairDt(points, i)
        /\ PairDt(points, i) <= 120
        /\ PairDistance(points, i) <= 600}

RECURSIVE SumOfDt(_, _)
SumOfDt(points, pairs) ==
    IF pairs = {} THEN 0
    ELSE LET i == CHOOSE j \in pairs : TRUE
         IN  PairDt(points, i) + SumOfDt(points, pairs \ {i})

RECURSIVE SumOfDistance(_, _)
SumOfDistance(points, pairs) ==
    IF pairs = {} THEN 0
    ELSE LET i == CHOOSE j \in pairs : TRUE
         IN  PairDistance(points, i) + SumOfDistance(points, pairs \ {i})

\* C27: the distance, the time and the bearing samples that
\* computeSpeedFromCache accumulates are those of the consecutive pairs with
\* 0 < dt <= 120 s and at most 600 m apart, and of no other pair; the totals
\* are never negative, whatever the order of the timestamps; when no pair
\* qualifies no speed is computed, and a vehicle without a reported speed
\* whose only pair is 650 m apart with dt = 30 s resolves to no speed.
C27_OnlyPlausiblePairsAccumulate ==
    call.fn = "computeSpeedFromCache" =>
        LET pairs == PlausiblePairs(call.points)
        IN  /\ call.totals[1] = SumOfDistance(call.points, pairs)
            /\ call.totals[2] = SumOfDt(call.points, pairs)
            /\ call.totals[5] = Cardinality(pairs)
            /\ call.totals[1] >= 0
            /\ call.totals[2] >= 0
            /\ pairs = {} => call.computed.speedMps = None /\ ~call.computed.reliable
            /\ (pairs = {} /\ call.reportedMps = None) => call.result = None

\* a vehicle without a reported speed whose only pair is 650 m apart with
\* dt = 30 s, resolved to no speed
C27_Witness ==
    /\ call.fn = "computeSpeedFromCache"
    /\ Len(call.points) = 2
    /\ PairDt(call.points, 2) = 30
    /\ PairDistance(call.points, 2) = 650
    /\ call.reportedMps = None
    /\ call.totals[1] = 0
    /\ call.totals[2] = 0
    /\ call.result = None

-----------------------------------------------------------------------------
(* Properties of the order of sweep and loop within a cycle, checked under  *)
(* SpecHist                                                                 *)

\* the keys whose newest snapshot is more than 300 s older than the clock
EvictableKeys ==
    {k \in DOMAIN vehicleCache :
        now - vehicleCache[k][Len(vehicleCache[k])].timestampSec > 300}

\* C29: the sweep of a cycle is over before the loop reads or appends: the
\* first tracked report of a key that the sweep of this cycle evicts is
\* resolved against no history, and its snapshot starts a new history; a
\* key appended in the cycle is in the store when the cycle ends, with the
\* appended snapshot last, however old that snapshot is.
C29_SweepBeforeLoop ==
    [][CycleStep =>
         \A i \in 1..Len(trace') :
             trace'[i].pushed # None =>
                 LET k == Val(trace'[i].cacheKey)
                     first == \A j \in 1..(i - 1) :
                                 trace'[j].pushed = None \/ trace'[j].cacheKey # Some(k)
                     last == \A j \in (i + 1)..Len(trace') :
                                 trace'[j].pushed = None \/ trace'[j].cacheKey # Some(k)
                 IN  /\ k \in DOMAIN vehicleCache'
                     /\ last => vehicleCache'[k][Len(vehicleCache'[k])] = Val(trace'[i].pushed)
                     /\ (first /\ k \in EvictableKeys) =>
                           /\ k \in swept'
                           /\ trace'[i].computed = NoComputed
                           /\ last => vehicleCache'[k] = <<Val(trace'[i].pushed)>>]_vars

\* at 1301 the vehicle last seen at 1000 reports the point of 1010, 100 m
\* on: its history was evicted first, so nothing is computed and the new
\* history holds that point alone
C29_Witness ==
    /\ Cycled
    /\ now = 1301
    /\ swept = {"r1:a"}
    /\ Len(trace) = 1
    /\ trace[1].pushed = Some([lat |-> 100, lon |-> 0, timestampSec |-> 1010])
    /\ trace[1].computed = NoComputed
    /\ vehicleCache["r1:a"] = <<[lat |-> 100, lon |-> 0, timestampSec |-> 1010]>>

-----------------------------------------------------------------------------
(* Properties of reports without timestamp, checked under SpecUnstamped     *)

\* entry i of the feed is a complete vehicle report without timestamp
IsUnstamped(entities, tr, i) == tr[i].reached /\ entities[i].timestamp = None

\* the report is resolved from its reported speed alone, it is included
\* exactly when that speed lies within [1, 75] km/h, nothing is computed
\* from the history and nothing is appended to it
SpeedFromReportOnly(entity, entry) ==
    LET reported == Val(entity.position).speed
        plausible == reported # None /\ MpsWithinKmh(Val(reported), 1, 75)
    IN  /\ entry.computed = NoComputed
        /\ entry.pushed = None
        /\ entry.resolved = IF plausible THEN reported ELSE None
        /\ entry.included <=> plausible

\* the history of the key after the cycle is what the sweep left of it
HistoryAsSwept(k) ==
    IF k \in DOMAIN vehicleCache /\ k \notin swept'
    THEN k \in DOMAIN vehicleCache' /\ vehicleCache'[k] = vehicleCache[k]
    ELSE k \notin DOMAIN vehicleCache'

\* the bearing answered for the vehicles of the key is the reported one
BearingAsReported(entity, vehicles) ==
    \A v \in 1..Len(vehicles) :
        vehicles[v].id = Val(entity.vehicleId) =>
            vehicles[v].bearing = Val(entity.position).bearing

\* C30 as stated: a report without timestamp is resolved from its reported
\* speed only and included exactly when that speed is within [1, 75] km/h;
\* the history of its vehicle is not changed by it and not consulted: what
\* is answered for the vehicle comes from the report alone.
C30_UnstampedLeavesHistoryAside ==
    [][CycleStep =>
         \A i \in 1..Len(feed') :
             IsUnstamped(feed', trace', i) =>
                 /\ SpeedFromReportOnly(feed'[i], trace'[i])
                 /\ HistoryAsSwept(Val(trace'[i].cacheKey))
                 /\ BearingAsReported(feed'[i], response'.vehicles)]_vars

\* C30 as amended: a report without timestamp is resolved from its reported
\* speed only and included exactly when that speed is within [1, 75] km/h;
\* no speed is computed from the history and the history of its vehicle is
\* not changed by it; the bearing answered by the vehicles endpoint is the
\* reported one or, when the report has none, the one between the last
\* two stored snapshots.
C30_UnstampedSpeedFromReportOnly ==
    [][CycleStep =>
         \A i \in 1..Len(feed') :
             IsUnstamped(feed', trace', i) =>
                 /\ SpeedFromReportOnly(feed'[i], trace'[i])
                 /\ HistoryAsSwept(Val(trace'[i].cacheKey))
                 /\ \A v \in 1..Len(response'.vehicles) :
                       response'.vehicles[v].bearing =
                           IF Val(feed'[i].position).bearing # None
                           THEN Val(feed'[i].position).bearing
                           ELSE StoredBearing(vehicleCache', trace'[i].cacheKey)]_vars

\* the vehicle with the stored snapshots of 1000 and 1030 reports 18 km/h
\* without timestamp or bearing to the vehicles endpoint: it is answered
\* with 18 km/h and the bearing between the two snapshots, which are kept
C30_Witness ==
    /\ Cycled
    /\ response.endpoint = "vehicles"
    /\ Len(feed) = 1
    /\ feed[1] = Unstamped(Some(Mps5), None)
    /\ trace[1].pushed = None
    /\ trace[1].resolved = Some(Mps5)
    /\ "r1:a" \in DOMAIN vehicleCache
    /\ Len(vehicleCache["r1:a"]) = 2
    /\ Len(response.vehicles) = 1
    /\ response.vehicles[1].bearing = Some(0)

-----------------------------------------------------------------------------
(* Properties of the computed bearing, checked under SpecWindow *)

RECURSIVE SumOfNorthing(_, _)
\* the metres northwards (southwards negative) over the pairs
SumOfNorthing(points, pairs) ==
    IF pairs = {} THEN 0
    ELSE LET i == CHOOSE j \in pairs : TRUE
         IN  (points[i].lat - points[i - 1].lat) + SumOfNorthing(points, pairs \ {i})

\* the compass bearing from the point before the last to the last
LastPairBearing(points) ==
    IF points[Len(points)].lat >= points[Len(points) - 1].lat THEN 0 ELSE 180

\* C31 as stated: when no segment of the window is accepted, the bearing is
\* the one from the last history point to the new point, whatever filter
\* that pair failed; when a segment is accepted it is the distance-weighted
\* circular mean of the accepted segments.
C31_FallbackBearingWheneverNoSegment ==
    call.fn = "computeSpeedFromCache" =>
        LET pairs == PlausiblePairs(call.points)
        IN  call.computed.bearingDeg =
                IF pairs = {} THEN Some(LastPairBearing(call.points))
                ELSE Some(IF SumOfNorthing(call.points, pairs) >= 0 THEN 0 ELSE 180)

\* C31 as amended: when no segment of the window is accepted, the bearing is
\* the one from the last history point to the new point if that pair has
\* dt > 0 and a distance above 0, also when its dt exceeds 120 s or its
\* distance 600 m, and there is no bearing if its dt <= 0 or its distance
\* is 0; when a segment is accepted the bearing is the distance-weighted
\* circular mean of the accepted segments and the last pair is not used.
C31_FallbackBearingOfLaterPoint ==
    call.fn = "computeSpeedFromCache" =>
        LET pairs == PlausiblePairs(call.points)
            n == Len(call.points)
        IN  call.computed.bearingDeg =
                IF pairs # {}
                THEN Some(IF SumOfNorthing(call.points, pairs) >= 0 THEN 0 ELSE 180)
                ELSE IF PairDt(call.points, n) > 0 /\ PairDistance(call.points, n) > 0
                     THEN Some(LastPairBearing(call.points))
                     ELSE None

\* a jump of 650 m northwards, then 70 m southwards after 121 s: no segment
\* is accepted and the bearing is south, that of the last pair
C31_Witness ==
    /\ call.fn = "computeSpeedFromCache"
    /\ Len(call.points) = 3
    /\ PlausiblePairs(call.points) = {}
    /\ PairDistance(call.points, 2) = 650
    /\ PairDt(call.points, 3) = 121
    /\ call.points[3].lat < call.points[2].lat
    /\ call.computed.bearingDeg = Some(180)

-----------------------------------------------------------------------------
(* Properties of the rows of the aggregation, checked under SpecAgg *)

\* every sample lies within [1, 75] km/h
AllPlausible(speeds) == \A i \in 1..Len(speeds) : KmhWithin(speeds[i], 1, 75)

\* C32: every row of the leaderboard has vehicleCount >= 1 and a speed that
\* is a number, within [1, 75] km/h when its samples are; a bucket of n >= 1
\* samples gives a row, and n - 2 * trimCount >= 1 samples are left after
\* trimming, so the mean is never 0 / 0.
C32_RowsCountedAndFinite ==
    call.fn = "aggregate" =>
        LET n == Len(call.speeds)
        IN  /\ Len(call.result) = IF n >= 1 THEN 1 ELSE 0
            /\ n >= 1 => n - 2 * ExpectedTrimCount(n) >= 1
            /\ \A i \in 1..Len(call.result) :
                  /\ call.result[i].vehicleCount = n
                  /\ call.result[i].vehicleCount >= 1
                  /\ call.result[i].speed # NaN
                  /\ call.result[i].speed >= 0
                  /\ AllPlausible(call.speeds) =>
                        (10 <= call.result[i].speed /\ call.result[i].speed <= 750)

\* a bucket of 14 plausible samples: two are trimmed at either end and the
\* row counts 14 vehicles at the mean of the ten left, 24.5 km/h
C32_Witness ==
    /\ call.fn = "aggregate"
    /\ Len(call.speeds) = 14
    /\ AllPlausible(call.speeds)
    /\ Len(call.result) = 1
    /\ call.result[1].vehicleCount = 14
    /\ call.result[1].speed = 245

-----------------------------------------------------------------------------
(* Properties of the emitted fields of a vehicle, checked under SpecStats   *)

\* C33 as stated: a vehicle of the live snapshot is moving exactly when its
\* emitted speedKmh, rounded to one decimal, is >= 2, and its emitted
\* speedKmh lies within [1, 75].
C33_StatusOfEmittedSpeed ==
    Answered("vehicles") =>
        \A j \in 1..Len(response.vehicles) :
            /\ (response.vehicles[j].status = "moving") = (response.vehicles[j].speedKmh >= 20)
            /\ 10 <= response.vehicles[j].speedKmh
            /\ response.vehicles[j].speedKmh <= 750

\* C33 as amended: the emitted speedKmh of a vehicle is its resolved speed
\* rounded to one decimal and lies within [1, 75]; the vehicle is moving
\* exactly when its resolved speed, before rounding, is >= 2, so a moving
\* vehicle is emitted with at least 2.0 and a stopped one with at most
\* 2.0: a stopped vehicle may be emitted with speedKmh 2.0.
C33_StatusOfResolvedSpeed ==
    Answered("vehicles") =>
        /\ Len(response.vehicles) = Len(IncludedKmhFrom(1))
        /\ \A j \in 1..Len(response.vehicles) :
              LET kmh == IncludedKmhFrom(1)[j]
                  emitted == response.vehicles[j].speedKmh
                  off == 10 * kmh[1] - emitted * kmh[2]
              IN  /\ 2 * off <= kmh[2] /\ -2 * off <= kmh[2]
                  /\ 10 <= emitted /\ emitted <= 750
                  /\ (response.vehicles[j].status = "moving") = (kmh[1] >= 2 * kmh[2])
                  /\ response.vehicles[j].status = "moving" => emitted >= 20
                  /\ response.vehicles[j].status = "stopped" => emitted <= 20

\* the vehicle at 1.999 km/h is stopped and emitted with speedKmh 2.0
C33_Witness ==
    /\ Answered("vehicles")
    /\ \E j \in 1..Len(response.vehicles) :
          /\ IncludedKmhFrom(1)[j] = <<18 * 1999, 5 * 3600>>
          /\ response.vehicles[j].status = "stopped"
          /\ response.vehicles[j].speedKmh = 20

-----------------------------------------------------------------------------
(* Properties of the segments behind a selected computed speed, checked     *)
(* under SpecWindow                                                         *)

\* the vehicle reports no speed and a computed speed is selected for it
ComputedSelected ==
    /\ call.fn = "computeSpeedFromCache"
    /\ call.reportedMps = None
    /\ call.result # None

-----------------------------------------------------------------------------
(* Properties of a steadily reporting vehicle, checked under SpecWindow     *)

\* every pair of the window is accepted and its own speed lies within
\* [1, 75] km/h
SteadyWindow(points) ==
    \A i \in 2..Len(points) :
        /\ i \in PlausiblePairs(points)
        /\ 5 * PairDt(points, i) <= 18 * PairDistance(points, i)
        /\ 18 * PairDistance(points, i) <= 5 * 75 * PairDt(points, i)

\* a vehicle without reported speed that resolved a computed speed reports
\* one more point, and its window is steady before and after
SteadyStep ==
    /\ call.fn = "computeSpeedFromCache"
    /\ call'.fn = "computeSpeedFromCache"
    /\ call.reportedMps = None
    /\ call'.reportedMps = None
    /\ call.result # None
    /\ Len(call'.points) = Len(call.points) + 1
    /\ SubSeq(call'.points, 1, Len(call.points)) = call.points
    /\ SteadyWindow(call'.points)

-----------------------------------------------------------------------------
(* Properties of repeated reports, checked under SpecHist *)

\* entry i of the feed is a tracked report equal to the newest snapshot
\* stored for its key, which the sweep of the cycle keeps
RepeatsNewest(i) ==
    /\ trace'[i].pushed # None
    /\ Val(trace'[i].cacheKey) \in DOMAIN vehicleCache
    /\ Val(trace'[i].cacheKey) \notin swept'
    /\ LET hist == vehicleCache[Val(trace'[i].cacheKey)]
       IN  hist[Len(hist)] = Val(trace'[i].pushed)

\* C36 as stated: a cycle that processes a report equal to the newest
\* stored snapshot of its vehicle leaves the history of the vehicle
\* unchanged, and no history holds two snapshots with the same timestamp.
C36_RepeatedReportIdempotent ==
    [][CycleStep =>
         /\ \A i \in 1..Len(trace') :
               (Len(trace') = 1 /\ RepeatsNewest(i)) =>
                   vehicleCache'[Val(trace'[i].cacheKey)] =
                       vehicleCache[Val(trace'[i].cacheKey)]
         /\ \A k \in DOMAIN vehicleCache' :
               \A m, n \in 1..Len(vehicleCache'[k]) :
                   vehicleCache'[k][m].timestampSec = vehicleCache'[k][n].timestampSec
                       => m = n]_vars

\* C36 as amended: a cycle of either endpoint that processes a report equal
\* to the newest stored snapshot of its vehicle appends it once more: the
\* history gains one more equal snapshot and, when it held 6, loses its
\* oldest one; the equal pair gives no segment, so the speed computed for
\* the report is the one the stored history gives alone.
C36_RepeatedReportAppendedAgain ==
    [][CycleStep =>
         \A i \in 1..Len(trace') :
             (Len(trace') = 1 /\ RepeatsNewest(i)) =>
                 LET k == Val(trace'[i].cacheKey)
                     hist == vehicleCache[k]
                     again == hist \o <<Val(trace'[i].pushed)>>
                 IN  /\ vehicleCache'[k] = Latest(again, 6)
                     /\ Len(again) \notin PlausiblePairs(again)
                     /\ PlausiblePairs(again) = PlausiblePairs(hist)
                     /\ trace'[i].computed.speedMps =
                           IF PlausiblePairs(hist) = {} THEN None
                           ELSE Some(Rat(SumOfDistance(hist, PlausiblePairs(hist)),
                                         SumOfDt(hist, PlausiblePairs(hist))))]_vars

\* seven polls of the unchanged report of 1010 after the report of 1000:
\* the history holds six snapshots of 1010 and the one of 1000 is gone
C36_Witness ==
    /\ Cycled
    /\ "r1:a" \in DOMAIN vehicleCache
    /\ Len(vehicleCache["r1:a"]) = 6
    /\ \A m \in 1..6 : vehicleCache["r1:a"][m].timestampSec = 1010
    /\ Len(appended["r1:a"]) >= 7
    /\ appended["r1:a"][Len(appended["r1:a"]) - 6].timestampSec = 1000

-----------------------------------------------------------------------------
(* What a cycle may change in the history store, checked under SpecSweep    *)

\* the positions in a feed of the reports of the pair with key k
ReportsOf(entities, k) ==
    {i \in 1..Len(entities) : entities[i].vehicle /\ VehicleKey(entities[i]) = k}

\* the snapshot is the position and the instant of the report
IsSnapshotOf(snapshot, entity) ==
    /\ entity.position # None
    /\ Val(entity.position).latitude = Some(snapshot.lat)
    /\ Val(entity.position).longitude = Some(snapshot.lon)
    /\ normalizeTimestampSec(entity.timestamp) = Some(snapshot.timestampSec)

\* the elements of a sequence
Elements(seq) == {seq[i] : i \in 1..Len(seq)}

\* C37: a cycle changes the history store only by removing the keys that are
\* stale at its sweep and by appending, for a report of its feed, one snapshot
\* of that report to the key of the report's own (routeId, vehicleId) pair:
\* a key that disappears was stale, a key that appears has a report in the
\* feed, the history of a key that is not stale and has no report in the feed
\* is the same before and after, and the history of a key with reports is
\* what the sweep left of it followed by snapshots of its own reports only,
\* at most one per report.
C37_CycleFrameOnStore ==
    [][CycleStep =>
         LET stale == EvictableKeys
             left(k) == IF k \in DOMAIN vehicleCache \ stale
                        THEN vehicleCache[k] ELSE <<>>
         IN  /\ DOMAIN vehicleCache \ DOMAIN vehicleCache' \subseteq stale
             /\ \A k \in DOMAIN vehicleCache' \ DOMAIN vehicleCache :
                   ReportsOf(feed', k) # {}
             /\ \A k \in DOMAIN vehicleCache \ stale :
                   ReportsOf(feed', k) = {} =>
                       /\ k \in DOMAIN vehicleCache'
                       /\ vehicleCache'[k] = vehicleCache[k]
             /\ \A k \in DOMAIN vehicleCache' :
                   \E n \in 0..Cardinality(ReportsOf(feed', k)) :
                       \E own \in [1..n -> ReportsOf(feed', k)] :
                           /\ \A i, j \in 1..n : i < j => own[i] < own[j]
                           /\ \E added \in [1..n -> Elements(vehicleCache'[k])] :
                                 /\ \A i \in 1..n : IsSnapshotOf(added[i], feed'[own[i]])
                                 /\ vehicleCache'[k] = Latest(left(k) \o added, 6)]_vars

\* after a cycle at 1299 on a feed with the report of vehicle a only, the
\* history of a holds the report once more and the history of b, which is
\* not stale and has no report in the feed, holds its one snapshot
C37_Witness ==
    /\ Cycled
    /\ now = 1299
    /\ Len(feed) = 1
    /\ VehicleKey(feed[1]) = "r1:a"
    /\ swept = {}
    /\ DOMAIN vehicleCache = {"r1:a", "r1:b"}
    /\ Len(vehicleCache["r1:a"]) = 2
    /\ Len(vehicleCache["r1:b"]) = 1
    /\ vehicleCache["r1:b"][1].timestampSec = 1010

-----------------------------------------------------------------------------
(* The rows of the leaderboard page over time, checked under SpecPage *)

\* the route numbers of the updates in a queue that are not in the other
\* queue as they are
NewlyQueued(before, after) ==
    {u.routeNumber : u \in Elements(after) \ Elements(before)}

\* C38: a row of the list the page shows is never removed, and it is replaced
\* only by a run of processNextItem that applies the update at the front of
\* the queue, an update of the same route number, which is then its row; an
\* update joins the queue only for a route of the reply the page just got.
\* So a route that no later reply names keeps its row and its speed once
\* the queue holds no update for it.
C38_RowsStayUntilUpdated ==
    [][/\ \A i \in 1..Len(pageData) :
             \/ pageData[i] \in Elements(pageData')
             \/ /\ ProcessStep
                /\ pageQueue # <<>>
                /\ Head(pageQueue).routeNumber = pageData[i].routeNumber
                /\ Head(pageQueue) \in Elements(pageData')
                /\ \A j \in 1..Len(pageData') :
                      pageData'[j].routeNumber = pageData[i].routeNumber =>
                          pageData'[j] = Head(pageQueue)
       /\ Len(pageData') >= Len(pageData)
       /\ NewlyQueued(pageQueue, pageQueue') \subseteq pageLast'.heard
       /\ NewlyQueued(pageQueue, pageQueue') # {} => ~ProcessStep]_vars

\* the list shows routes 1 and 2, the last reply named route 1 only, its
\* update has just replaced the row of route 1 and nothing is queued: the
\* row of route 2 is still shown
C38_Witness ==
    /\ pageLast.kind = "applied"
    /\ pageLast.replaced
    /\ pageLast.heard = {"1"}
    /\ pageQueue = <<>>
    /\ Len(pageData) = 2
    /\ \E i, j \in 1..2 : /\ pageData[i].routeNumber = "1"
                          /\ pageData[j].routeNumber = "2"
====
